---- MODULE Spec2Model ----
(***************************************************************************)
(* Crawl orchestration engine of gocrawler (embroidery-designs):           *)
(*   - WorkerPool            src/internal/crawler/worker_pool.go           *)
(*   - EmbroideryAPICrawler  src/unnamed/part_009 (CrawlAll, the monitor,  *)
(*                           IncrementalCrawl)                             *)
(*   - CrawlerService        src/unnamed/part_002 (Start/Stop/Pause/Resume)*)
(*   - proxy health, utils.Retry, BuildEmbroideryPayload, the rate limiter *)
(*     and proxy.Manager with makeRequest's proxy swap                     *)
(* Each component has its own specification over the shared variables:     *)
(* SpecPool, SpecCrawl, SpecMon, SpecTick, SpecSvc, SpecProxy, SpecRetry,  *)
(* SpecPayload, SpecLim, SpecMgr, SpecLock, and SpecDrift for a crawl      *)
(* whose upstream total changes.  A goroutine is a record with a position  *)
(* (pc); a context is a cancelled flag; a Go select is a choice among the  *)
(* actions of its ready cases.                                             *)
(***************************************************************************)
EXTENDS Integers, Sequences, FiniteSets, TLC

\* ------------------------------------------------------------------ bounds
\* Workers per WorkerPool.Start call (the service builds the pool with 10).
Workers == 2
\* WorkerPool.Start calls in SpecPool.
MaxPoolStarts == 1
\* WorkerPool.Submit calls.
MaxSubmits == 2
\* config.Embroidery.PageSize (120 when unset), scaled down.
PageSize == 2
\* Largest upstream total (hits.total.value).
MaxTotal == 5
\* Request failures and malformed responses per crawl invocation.
MaxErrors == 2
\* Entries saveProductsBatch lets stats.Errors grow to (100 in the source),
\* scaled down.
ErrorLogCap == 2
\* go StartPeriodicMonitoring(...) statements executed.
MaxMonitors == 3
\* IncrementalCrawl goroutines launched.
MaxRuns == 2
\* StartTask / StopTask / PauseTask / ResumeTask calls.
MaxCalls == 3

\* Proxies in the proxies table.
NumProxies == 2
\* Health results (checks, failure reports, manual tests) applied in a run.
MaxHealthResults == 5
\* Largest RetryConfig.MaxAttempts, BackoffMultiplier, InitialDelay
\* (seconds) and the smaller of the two MaxDelay values (seconds).
MaxAttemptsBound == 4
MaxMultiplier == 2
MaxInitialDelay == 2
MaxDelayCap == 3
\* Largest from and size passed to BuildEmbroideryPayload.
MaxPayFrom == 2
MaxPaySize == 2
\* Rate limiter: time is counted in ticks, TicksPerSecond of them a second;
\* a limiter of R requests/sec gains R / TicksPerSecond tokens a tick.
TicksPerSecond == 1
\* Tokens per tick of the global limiter and the largest of a domain limiter.
GlobalPerTick == 1
MaxDomainPerTick == 1
\* WaitForDomain calls, SetDomainRate calls and ticks in a run.
MaxWaits == 2
MaxSetRates == 1
MaxTicks == 1

\* Ticks of the proxy manager's health ticker in a run.
MaxHealthTicks == 2
\* eac.retryConfig.MaxAttempts for a page request (RETRY_MAX_ATTEMPTS is 3).
MaxRequestAttempts == 3
\* Manual proxy tests (POST /proxies/test) in a run.
MaxManualTests == 1
\* Goroutines using the proxy pool and the two registries at once.
NumThreads == 2
\* Operations those goroutines start.
MaxLockOps == 4
\* Longest p.proxies.
MaxPoolLen == 2

\* ------------------------------------------------------------ configuration
\* PROXY_MAX_FAILURES (default), read into config.Proxy.MaxFailures.
MaxFailures == 3

\* --------------------------------------------------------------- variables
VARIABLES
  \* WorkerPool
  wpCancelled,    \* wp.ctx is cancelled
  jobChan,        \* buffered contents of wp.jobChan (task ids)
  jobClosed,      \* wp.jobChan is closed
  wgCount,        \* wp.wg counter
  wpc,            \* worker goroutines: sequence of [pc, task]
  stopPc,         \* position of the WorkerPool.Stop call
  submits,        \* Submit calls: [pc, afterStop]
  executed,       \* task ids crawl() was invoked on (history)
  inFlightAtStop  \* workers inside crawl() when Stop was called (history)

poolVars == <<wpCancelled, jobChan, jobClosed, wgCount, wpc, stopPc, submits,
              executed, inFlightAtStop>>

VARIABLES
  \* the upstream search API
  upTotal         \* records the upstream holds (hits.total.value)

VARIABLES
  \* one CrawlAll invocation (EmbroideryAPICrawler.CrawlAll) and its task row
  storedFrom,     \* last_from in the task's stored configuration, or NoCursor
  initFrom,       \* last_from of task.Config when CrawlAll was called (history)
  cpc,            \* position of CrawlAll
  from,           \* local from
  totalProcessed, \* local totalProcessed
  totalAvailable, \* local totalAvailable
  crawlCancelled, \* ctx of the invocation is cancelled
  pendingWrites,  \* go UpdateTaskConfig(...) started and not yet executed
  nWrites,        \* cursor writes started so far
  requests,       \* offsets of the page requests issued, in order (history)
  resp,           \* the response being processed: [hits, total]
  errorCount,     \* stats.ErrorCount from failed requests and parse errors
  result,         \* what CrawlAll returned: "none", "nil", "cancelled"
  monLastTotal,   \* lastTotal of go StartPeriodicMonitoring(...), or NoCursor
  processedAt,    \* offsets of the pages handed to saveProductsBatch (history)
  statErrors,     \* len(stats.Errors)
  skippedRecords  \* records of fetched pages saveProductsBatch returned
                  \* without saving, ctx being done (history)

crawlVars == <<storedFrom, initFrom, cpc, from, totalProcessed,
               totalAvailable, crawlCancelled, pendingWrites, nWrites, requests,
               resp, errorCount, result, monLastTotal, processedAt, statErrors,
               skippedRecords>>

VARIABLES
  \* EmbroideryAPICrawler: periodic monitors and incremental runs
  periodicMonitors, \* eac.periodicMonitors: task id -> monitor holding the entry
  monStarts,        \* go StartPeriodicMonitoring(...) goroutines not yet run
  nMonStarts,       \* go StartPeriodicMonitoring(...) statements executed
  mons,             \* monitor goroutines: [task, parent, cancelled, pc, lastTotal, fetchedTo]
  runs              \* IncrementalCrawl goroutines

monVars == <<periodicMonitors, monStarts, nMonStarts, mons, runs>>

VARIABLES
  \* CrawlerService and the task rows
  status,         \* tasks.status
  notifs,         \* task_status messages broadcast per task, in order
  activeTasks,    \* cs.activeTasks: task id -> execution whose cancel it holds
  kind,           \* crawler_type of the task's configuration
  execs,          \* goroutines spawned by StartTask: [task, pc, cancelled, err]
  calls           \* StartTask / StopTask / PauseTask / ResumeTask calls

svcVars == <<kind, status, notifs, activeTasks, execs, calls>>

VARIABLES
  \* the proxies table and the health checker
  proxyRows,      \* proxies rows: proxy id -> [isActive, failureCount]
  consecFailures, \* failed health results since the last healthy one (history)
  everHealthy,    \* a healthy result was applied to the proxy (history)
  hcPos,          \* CheckAllProxies: index of the proxy being checked, 0 = idle
  nHealth         \* health results applied so far

proxyVars == <<proxyRows, consecFailures, everHealthy, hcPos, nHealth>>

VARIABLES
  \* one utils.Retry call
  rcfg,           \* config: [maxAttempts, multiplier, initialDelay, maxDelay]
  rpc,            \* position: "loop", "invoke", "backoff", "returned"
  attempt,        \* loop variable attempt
  lastErr,        \* lastErr: 0 = nil, k = the error of invocation k
  rCancelled,     \* ctx is cancelled
  timerFired,     \* the time.After(nextDelay) channel is ready
  invocations,    \* calls of fn so far (history)
  delays,         \* nextDelay of every backoff started, in order (history)
  rResult,        \* what Retry returned: "none", "nil", "cancelled", <<"err", k>>
  cancelledAt,    \* where Retry was when ctx was cancelled (history)
  invAtCancel     \* invocations when ctx was cancelled (history)

retryVars == <<rcfg, rpc, attempt, lastErr, rCancelled, timerFired, invocations,
               delays, rResult, cancelledAt, invAtCancel>>

VARIABLES
  \* one BuildEmbroideryPayload call
  payFrom,        \* argument from
  paySize,        \* argument size
  payOverrides,   \* argument overrides
  payload,        \* local payload
  payPc           \* position: "idle", "called", "default", "merged", "returned"

payloadVars == <<payFrom, paySize, payOverrides, payload, payPc>>

VARIABLES
  \* one DomainRateLimiter
  lnow,           \* ticks since the limiter was built
  buckets,        \* rate.Limiter objects: [perTick, tokens, born, taken]; 1 = global
  limiters,       \* drl.limiters: domain -> bucket, 0 = no entry
  waits           \* WaitForDomain calls: [domain, pc, saw]

limVars == <<lnow, buckets, limiters, waits>>

\* The library components: proxy health, Retry, the payload builder, the
\* rate limiter.
VARIABLES
  \* proxy.Manager, its pool, its health routine, and one makeRequest call
  mpool,          \* m.pool.proxies: ids of the proxies loaded
  hcPc,           \* healthCheckRoutine: "off", "initial", "check", "select", "exited"
  hcTodo,         \* proxies of the snapshot CheckAllProxies has not reached yet
  hcSnapshot,     \* the snapshot of the cycle under way or last run (history)
  hcChecked,      \* proxies CheckProxy was called on in that cycle (history)
  stopChan,       \* m.stopChan is closed
  hcTicks,        \* ticks of the ticker received so far
  hcCycles,       \* performHealthCheck calls so far
  hcReloads,      \* LoadProxies calls made by performHealthCheck so far
  nManual,        \* manual proxy tests so far
  mrPc,           \* makeRequest: "idle", "attempt", "done", "failed"
  currentProxy,   \* makeRequest's currentProxy, 0 for nil
  clientProxy,    \* the proxy makeRequest's client is routed through, 0 for none
  mrAttempt,      \* number of the attempt of utils.Retry under way
  mrFailures,     \* attempts that failed at the transport so far
  mrReports,      \* proxies passed to ReportProxyFailure, in order (history)
  mrGets          \* GetProxy calls made by the retry closure (history)

mgrVars == <<mpool, hcPc, hcTodo, hcSnapshot, hcChecked, stopChan, hcTicks,
             hcCycles, hcReloads, nManual, mrPc, currentProxy, clientProxy,
             mrAttempt, mrFailures, mrReports, mrGets>>

VARIABLES
  \* goroutines using ProxyPool, CrawlerService.activeTasks and
  \* EmbroideryAPICrawler.periodicMonitors, at the granularity of their locks
  tPc,            \* position of every goroutine inside its operation
  tArg,           \* argument of the operation: a proxy id or an index
  tRes,           \* what the last pool operation of the goroutine returned
  rw,             \* the three sync.RWMutex: [w: writer or 0, r: set of readers]
  proxies,        \* p.proxies: list of proxy ids
  nLockOps        \* operations started so far

lockVars == <<tPc, tArg, tRes, rw, proxies, nLockOps>>

libVars == <<proxyVars, retryVars, payloadVars, limVars, mgrVars, lockVars>>

vars == <<upTotal, poolVars, crawlVars, monVars, svcVars, libVars>>

\* What the actions of one component leave alone.
notPool == <<upTotal, crawlVars, monVars, svcVars, libVars>>
notCrawl == <<upTotal, poolVars, monVars, svcVars, libVars>>
notMon == <<poolVars, crawlVars, svcVars, libVars>>
notSvc == <<upTotal, crawlVars, libVars>>

\* ============================================================== WorkerPool
\* jobChan: make(chan *storage.Task, workers*2)
JobChanCap == Workers * 2

SubmitIds == 1..MaxSubmits

\* Worker goroutines that act (those of SpecPool's Start calls).
WorkerIds == 1..(Workers * MaxPoolStarts)

\* NewWorkerPool: fresh context, empty open queue, no worker yet.
PoolInit ==
  /\ wpCancelled = FALSE
  /\ jobChan = <<>>
  /\ jobClosed = FALSE
  /\ wgCount = 0
  /\ wpc = <<>>
  /\ stopPc = "idle"
  /\ submits = [s \in SubmitIds |-> [pc |-> "idle", afterStop |-> FALSE]]
  /\ executed = {}
  /\ inFlightAtStop = {}

\* The workers one Start call adds: wg.Add(1); go wp.worker(i), `workers` times.
NewWorkers == [i \in 1..Workers |-> [pc |-> "select", task |-> 0]]

\* WorkerPool.Start on the pool's worker list and wait group.
StartWorkers ==
  /\ wpc' = wpc \o NewWorkers
  /\ wgCount' = wgCount + Workers

\* WorkerPool.Start called directly (SpecPool).
WorkerPoolStart ==
  /\ Len(wpc) < Workers * MaxPoolStarts
  /\ StartWorkers
  /\ UNCHANGED <<notPool, wpCancelled, jobChan, jobClosed, stopPc, submits, executed,
                 inFlightAtStop>>

\* worker: case task, ok := <-wp.jobChan with ok: crawl(wp.ctx, task) begins.
WorkerRecv(w) ==
  /\ w <= Len(wpc)
  /\ wpc[w].pc = "select"
  /\ jobChan # <<>>
  /\ wpc' = [wpc EXCEPT ![w] = [pc |-> "crawl", task |-> Head(jobChan)]]
  /\ jobChan' = Tail(jobChan)
  /\ executed' = executed \cup {Head(jobChan)}
  /\ UNCHANGED <<notPool, wpCancelled, jobClosed, wgCount, stopPc, submits, inFlightAtStop>>

\* worker: crawl() returns (its error is logged only); back to the select.
WorkerCrawlReturn(w) ==
  /\ w <= Len(wpc)
  /\ wpc[w].pc = "crawl"
  /\ wpc' = [wpc EXCEPT ![w] = [pc |-> "select", task |-> 0]]
  /\ UNCHANGED <<notPool, wpCancelled, jobChan, jobClosed, wgCount, stopPc, submits,
                 executed, inFlightAtStop>>

\* worker: receive on the closed and drained queue (!ok): return; wg.Done().
WorkerChanClosed(w) ==
  /\ w <= Len(wpc)
  /\ wpc[w].pc = "select"
  /\ jobClosed
  /\ jobChan = <<>>
  /\ wpc' = [wpc EXCEPT ![w] = [pc |-> "exited", task |-> 0]]
  /\ wgCount' = wgCount - 1
  /\ UNCHANGED <<notPool, wpCancelled, jobChan, jobClosed, stopPc, submits, executed,
                 inFlightAtStop>>

\* worker: case <-wp.ctx.Done(): return; wg.Done().
WorkerCtxDone(w) ==
  /\ w <= Len(wpc)
  /\ wpc[w].pc = "select"
  /\ wpCancelled
  /\ wpc' = [wpc EXCEPT ![w] = [pc |-> "exited", task |-> 0]]
  /\ wgCount' = wgCount - 1
  /\ UNCHANGED <<notPool, wpCancelled, jobChan, jobClosed, stopPc, submits, executed,
                 inFlightAtStop>>

\* Stop: wp.cancel()
StopCancel ==
  /\ stopPc = "idle"
  /\ wpCancelled' = TRUE
  /\ stopPc' = "cancelled"
  /\ inFlightAtStop' = {w \in 1..Len(wpc) : wpc[w].pc = "crawl"}
  /\ UNCHANGED <<notPool, jobChan, jobClosed, wgCount, wpc, submits, executed>>

\* Stop: close(wp.jobChan)
StopCloseJobChan ==
  /\ stopPc = "cancelled"
  /\ jobClosed' = TRUE
  /\ stopPc' = "closed"
  /\ UNCHANGED <<notPool, wpCancelled, jobChan, wgCount, wpc, submits, executed,
                 inFlightAtStop>>

\* A Stop that does not wait for the wait group.
StopWaitNoWait ==
  /\ stopPc = "closed"
  /\ stopPc' = "done"
  /\ UNCHANGED <<notPool, wpCancelled, jobChan, jobClosed, wgCount, wpc, submits,
                 executed, inFlightAtStop>>

\* Stop: wp.wg.Wait(); close(wp.resultChan); Stop returns.
StopWait ==
  /\ stopPc = "closed"
  /\ wgCount = 0
  /\ stopPc' = "done"
  /\ UNCHANGED <<notPool, wpCancelled, jobChan, jobClosed, wgCount, wpc, submits,
                 executed, inFlightAtStop>>

\* Submit is called: the caller enters the select.
SubmitCall(s) ==
  /\ submits[s].pc = "idle"
  /\ submits' = [submits EXCEPT ![s] = [pc |-> "select", afterStop |-> stopPc # "idle"]]
  /\ UNCHANGED <<notPool, wpCancelled, jobChan, jobClosed, wgCount, wpc, stopPc,
                 executed, inFlightAtStop>>

\* Submit: case wp.jobChan <- task, on the open queue with room.
SubmitSend(s) ==
  /\ submits[s].pc = "select"
  /\ ~jobClosed
  /\ Len(jobChan) < JobChanCap
  /\ jobChan' = Append(jobChan, s)
  /\ submits' = [submits EXCEPT ![s].pc = "sent"]
  /\ UNCHANGED <<notPool, wpCancelled, jobClosed, wgCount, wpc, stopPc, executed,
                 inFlightAtStop>>

\* Submit: case wp.jobChan <- task, on the closed queue: the send panics.
SubmitPanic(s) ==
  /\ submits[s].pc = "select"
  /\ jobClosed
  /\ submits' = [submits EXCEPT ![s].pc = "panicked"]
  /\ UNCHANGED <<notPool, wpCancelled, jobChan, jobClosed, wgCount, wpc, stopPc,
                 executed, inFlightAtStop>>

\* Submit: case <-wp.ctx.Done(): return.
SubmitCtxDone(s) ==
  /\ submits[s].pc = "select"
  /\ wpCancelled
  /\ submits' = [submits EXCEPT ![s].pc = "dropped"]
  /\ UNCHANGED <<notPool, wpCancelled, jobChan, jobClosed, wgCount, wpc, stopPc,
                 executed, inFlightAtStop>>

PoolNext ==
  \/ WorkerPoolStart
  \/ \E w \in WorkerIds : WorkerRecv(w)
  \/ \E w \in WorkerIds : WorkerCrawlReturn(w)
  \/ \E w \in WorkerIds : WorkerChanClosed(w)
  \/ \E w \in WorkerIds : WorkerCtxDone(w)
  \/ StopCancel
  \/ StopCloseJobChan
  \/ StopWait
  \/ \E s \in SubmitIds : SubmitCall(s)
  \/ \E s \in SubmitIds : SubmitSend(s)
  \/ \E s \in SubmitIds : SubmitPanic(s)
  \/ \E s \in SubmitIds : SubmitCtxDone(s)

\* ================================================= CrawlAll (page loop)
\* A configuration without last_from.
NoCursor == 0 - 1

Min(a, b) == IF a < b THEN a ELSE b
Max(a, b) == IF a > b THEN a ELSE b

\* The upstream's answer to a page request (from, size): the records at
\* offsets from..from+size-1 that exist, and the total.
Hits(total, frm, size) == Min(size, Max(0, total - frm))

\* The state of the task row and of the locals when CrawlAll is entered.
CrawlInit ==
  /\ upTotal \in 0..MaxTotal
  /\ initFrom \in {NoCursor} \cup 0..(MaxTotal + 1)
  /\ storedFrom = initFrom
  /\ cpc = "start"
  /\ from = 0
  /\ totalProcessed = 0
  /\ totalAvailable = 0
  /\ crawlCancelled = FALSE
  /\ pendingWrites = {}
  /\ nWrites = 0
  /\ requests = <<>>
  /\ resp = [hits |-> 0, total |-> 0]
  /\ errorCount = 0
  /\ result = "none"
  /\ monLastTotal = NoCursor
  /\ processedAt = <<>>
  /\ statErrors = 0
  /\ skippedRecords = 0

\* No CrawlAll invocation (the other specifications).
CrawlIdle ==
  /\ initFrom = NoCursor
  /\ storedFrom = NoCursor
  /\ cpc = "idle"
  /\ from = 0
  /\ totalProcessed = 0
  /\ totalAvailable = 0
  /\ crawlCancelled = FALSE
  /\ pendingWrites = {}
  /\ nWrites = 0
  /\ requests = <<>>
  /\ resp = [hits |-> 0, total |-> 0]
  /\ errorCount = 0
  /\ result = "none"
  /\ monLastTotal = NoCursor
  /\ processedAt = <<>>
  /\ statErrors = 0
  /\ skippedRecords = 0

\* A CrawlAll that ignores the stored cursor and starts at 0.
CrawlAllBeginNoResume ==
  /\ cpc = "start"
  /\ from' = 0
  /\ totalProcessed' = 0
  /\ totalAvailable' = 0
  /\ cpc' = "loop"
  /\ UNCHANGED <<notCrawl, storedFrom, initFrom, crawlCancelled, pendingWrites,
                 nWrites, requests, resp, errorCount, result, monLastTotal,
                 processedAt, statErrors, skippedRecords>>

\* CrawlAll entry: from := last_from of task.Config (0 without one);
\* totalProcessed := from; totalAvailable := 0.
CrawlAllBegin ==
  /\ cpc = "start"
  /\ from' = IF initFrom = NoCursor THEN 0 ELSE initFrom
  /\ totalProcessed' = from'
  /\ totalAvailable' = 0
  /\ cpc' = "loop"
  /\ UNCHANGED <<notCrawl, storedFrom, initFrom, crawlCancelled, pendingWrites,
                 nWrites, requests, resp, errorCount, result, monLastTotal,
                 processedAt, statErrors, skippedRecords>>

\* Top of the loop with ctx done: return ctx.Err().
LoopCancelled ==
  /\ cpc = "loop"
  /\ crawlCancelled
  /\ cpc' = "returned"
  /\ result' = "cancelled"
  /\ UNCHANGED <<notCrawl, storedFrom, initFrom, from, totalProcessed,
                 totalAvailable, crawlCancelled, pendingWrites, nWrites, requests,
                 resp, errorCount, monLastTotal,
                 processedAt, statErrors, skippedRecords>>

\* A checkpoint that records the offset after the page about to be fetched.
last_from_ahead(f) == f + PageSize

\* The checkpoint written at the top of the loop: taskConfig["last_from"] =
\* from, the offset of the page about to be fetched.
last_from(f) == f

\* Top of the loop, ctx not done: taskConfig["last_from"] = from;
\* go UpdateTaskConfig(...); build the payload; makeRequest is issued.
PageBegin ==
  /\ cpc = "loop"
  /\ ~crawlCancelled
  /\ nWrites' = nWrites + 1
  /\ pendingWrites' = pendingWrites \cup {[n |-> nWrites + 1, from |-> last_from(from)]}
  /\ requests' = Append(requests, from)
  /\ cpc' = "request"
  /\ UNCHANGED <<notCrawl, storedFrom, initFrom, from, totalProcessed,
                 totalAvailable, crawlCancelled, resp, errorCount, result,
                 monLastTotal,
                 processedAt, statErrors, skippedRecords>>

\* The goroutine of a cursor write runs UpdateTaskConfig(ctx, ...): the row
\* gets its last_from, unless ctx is done by then (the statement fails).
CursorWriteLands ==
  /\ \E w \in pendingWrites :
       /\ pendingWrites' = pendingWrites \ {w}
       /\ storedFrom' = IF crawlCancelled THEN storedFrom ELSE w.from
  /\ UNCHANGED <<notCrawl, initFrom, cpc, from, totalProcessed, totalAvailable,
                 crawlCancelled, nWrites, requests, resp, errorCount, result,
                 monLastTotal,
                 processedAt, statErrors, skippedRecords>>

\* makeRequest returns a body that parses.
RequestOK ==
  /\ cpc = "request"
  /\ resp' = [hits |-> Hits(upTotal, from, PageSize), total |-> upTotal]
  /\ cpc' = "process"
  /\ UNCHANGED <<notCrawl, storedFrom, initFrom, from, totalProcessed,
                 totalAvailable, crawlCancelled, pendingWrites, nWrites, requests,
                 errorCount, result, monLastTotal,
                 processedAt, statErrors, skippedRecords>>

\* makeRequest returns an error: stats.ErrorCount++; stats.Errors =
\* append(stats.Errors, ...); time.Sleep(2s); continue.
RequestFail ==
  /\ cpc = "request"
  /\ errorCount < MaxErrors
  /\ errorCount' = errorCount + 1
  /\ statErrors' = statErrors + 1
  /\ cpc' = "errsleep"
  /\ UNCHANGED <<notCrawl, storedFrom, initFrom, from, totalProcessed,
                 totalAvailable, crawlCancelled, pendingWrites, nWrites, requests,
                 resp, result, monLastTotal, processedAt, skippedRecords>>

\* The 2 s sleep after a failed request ends.
ErrSleepDone ==
  /\ cpc = "errsleep"
  /\ cpc' = "loop"
  /\ UNCHANGED <<notCrawl, storedFrom, initFrom, from, totalProcessed,
                 totalAvailable, crawlCancelled, pendingWrites, nWrites, requests,
                 resp, errorCount, result, monLastTotal,
                 processedAt, statErrors, skippedRecords>>

\* The body does not parse: stats.ErrorCount++; stats.Errors =
\* append(stats.Errors, ...); continue.
RequestMalformed ==
  /\ cpc = "request"
  /\ errorCount < MaxErrors
  /\ errorCount' = errorCount + 1
  /\ statErrors' = statErrors + 1
  /\ cpc' = "loop"
  /\ UNCHANGED <<notCrawl, storedFrom, initFrom, from, totalProcessed,
                 totalAvailable, crawlCancelled, pendingWrites, nWrites, requests,
                 resp, result, monLastTotal, processedAt, skippedRecords>>

\* A totalAvailable that follows every parsed response.
LearnTotalAlways(known, reported) == reported

\* totalAvailable after a parsed response: set while it is still 0.
LearnTotal(known, reported) == IF known = 0 THEN reported ELSE known

\* A stop test that only looks for a short page.
LastPageShortOnly(processed, available, count) == count < PageSize

\* The loop's stop test after a page of count records.
LastPage(processed, available, count) ==
  processed >= available \/ count < PageSize

\* A parsed response with no hits: break.
PageEmpty ==
  /\ cpc = "process"
  /\ resp.hits = 0
  /\ totalAvailable' = LearnTotal(totalAvailable, resp.total)
  /\ cpc' = "finish"
  /\ UNCHANGED <<notCrawl, storedFrom, initFrom, from, totalProcessed,
                 crawlCancelled, pendingWrites, nWrites, requests, resp,
                 errorCount, result, monLastTotal,
                 processedAt, statErrors, skippedRecords>>

\* A cursor that stays on the page just processed.
NextFromSame(f) == f

\* A cursor that jumps over a page.
NextFromTwoPages(f) == f + PageSize + PageSize

\* Move to the next page: from += pageSize.
NextFrom(f) == f + PageSize

\* saveProductsBatch: of the records of a batch, failed fail to be saved;
\* each failure appends to stats.Errors while len(stats.Errors) < 100.
saveProductsBatch(errors, failed) ==
  IF errors >= ErrorLogCap THEN errors ELSE Min(errors + failed, ErrorLogCap)

\* A saveProductsBatch that saves every record whatever the state of ctx.
UnsavedNever(done, count) == 0

\* saveProductsBatch tests ctx.Done() before every record and returns at
\* once when it is done: the records of the page that are not saved.
Unsaved(done, count) == IF done THEN count ELSE 0

\* A parsed response with hits: the records are handed to saveProductsBatch,
\* totalProcessed += productsCount, then break on the last page, else
\* from += pageSize and the ctx check before the inter-page wait.
PageProcess ==
  /\ cpc = "process"
  /\ resp.hits > 0
  /\ totalAvailable' = LearnTotal(totalAvailable, resp.total)
  /\ processedAt' = Append(processedAt, from)
  /\ skippedRecords' = skippedRecords + Unsaved(crawlCancelled, resp.hits)
  /\ \E failed \in 0..(resp.hits - Unsaved(crawlCancelled, resp.hits)) :
       statErrors' = saveProductsBatch(statErrors, failed)
  /\ totalProcessed' = totalProcessed + resp.hits
  /\ IF LastPage(totalProcessed', totalAvailable', resp.hits)
       THEN /\ cpc' = "finish"
            /\ UNCHANGED <<from, result>>
       ELSE /\ from' = NextFrom(from)
            /\ IF crawlCancelled
                 THEN cpc' = "returned" /\ result' = "cancelled"
                 ELSE cpc' = "limwait" /\ UNCHANGED result
  /\ UNCHANGED <<notCrawl, storedFrom, initFrom, crawlCancelled, pendingWrites,
                 nWrites, requests, resp, errorCount, monLastTotal>>

\* rateLimiter.WaitForDomain(ctx, ...) returns nil.
LimiterWaitDone ==
  /\ cpc = "limwait"
  /\ cpc' = "wait"
  /\ UNCHANGED <<notCrawl, storedFrom, initFrom, from, totalProcessed,
                 totalAvailable, crawlCancelled, pendingWrites, nWrites, requests,
                 resp, errorCount, result, monLastTotal, processedAt, statErrors, skippedRecords>>

\* rateLimiter.WaitForDomain(ctx, ...) returns an error because ctx is done:
\* the warning is logged and time.Sleep(500ms) begins.
LimiterWaitFails ==
  /\ cpc = "limwait"
  /\ crawlCancelled
  /\ cpc' = "limsleep"
  /\ UNCHANGED <<notCrawl, storedFrom, initFrom, from, totalProcessed,
                 totalAvailable, crawlCancelled, pendingWrites, nWrites, requests,
                 resp, errorCount, result, monLastTotal, processedAt, statErrors, skippedRecords>>

\* The 500 ms sleep after a rate limiter error ends.
LimSleepDone ==
  /\ cpc = "limsleep"
  /\ cpc' = "wait"
  /\ UNCHANGED <<notCrawl, storedFrom, initFrom, from, totalProcessed,
                 totalAvailable, crawlCancelled, pendingWrites, nWrites, requests,
                 resp, errorCount, result, monLastTotal, processedAt, statErrors, skippedRecords>>

\* The random delay ends: case <-time.After(randomDelay).
WaitDone ==
  /\ cpc = "wait"
  /\ cpc' = "loop"
  /\ UNCHANGED <<notCrawl, storedFrom, initFrom, from, totalProcessed,
                 totalAvailable, crawlCancelled, pendingWrites, nWrites, requests,
                 resp, errorCount, result, monLastTotal,
                 processedAt, statErrors, skippedRecords>>

\* ctx is done during the random delay: return ctx.Err().
WaitCancelled ==
  /\ cpc = "wait"
  /\ crawlCancelled
  /\ cpc' = "returned"
  /\ result' = "cancelled"
  /\ UNCHANGED <<notCrawl, storedFrom, initFrom, from, totalProcessed,
                 totalAvailable, crawlCancelled, pendingWrites, nWrites, requests,
                 resp, errorCount, monLastTotal,
                 processedAt, statErrors, skippedRecords>>

\* After the loop: delete(taskConfig, "last_from"); UpdateTaskConfig(ctx, ...)
\* (fails when ctx is done); go StartPeriodicMonitoring(ctx, task,
\* totalAvailable); return nil.
CrawlAllFinish ==
  /\ cpc = "finish"
  /\ storedFrom' = IF crawlCancelled THEN storedFrom ELSE NoCursor
  /\ monLastTotal' = totalAvailable
  /\ cpc' = "returned"
  /\ result' = "nil"
  /\ UNCHANGED <<notCrawl, initFrom, from, totalProcessed, totalAvailable,
                 crawlCancelled, pendingWrites, nWrites, requests, resp,
                 errorCount,
                 processedAt, statErrors, skippedRecords>>

\* The owner of ctx cancels it (StopTask).
CancelCrawl ==
  /\ cpc # "idle"
  /\ ~crawlCancelled
  /\ crawlCancelled' = TRUE
  /\ UNCHANGED <<notCrawl, storedFrom, initFrom, cpc, from, totalProcessed,
                 totalAvailable, pendingWrites, nWrites, requests, resp,
                 errorCount, result, monLastTotal,
                 processedAt, statErrors, skippedRecords>>

\* The upstream's total changes while a page request is in flight (a change
\* at another moment is seen by the next request in the same way).
UpstreamChanges ==
  /\ cpc = "request"
  /\ \E t \in 0..MaxTotal : t # upTotal /\ upTotal' = t
  /\ UNCHANGED <<poolVars, crawlVars, monVars, svcVars, libVars>>

CrawlNext ==
  \/ CrawlAllBegin
  \/ LoopCancelled
  \/ PageBegin
  \/ CursorWriteLands
  \/ RequestOK
  \/ RequestFail
  \/ ErrSleepDone
  \/ RequestMalformed
  \/ PageEmpty
  \/ PageProcess
  \/ LimiterWaitDone
  \/ LimiterWaitFails
  \/ LimSleepDone
  \/ WaitDone
  \/ WaitCancelled
  \/ CrawlAllFinish
  \/ CancelCrawl

\* ==================================== periodic monitors, incremental runs
\* Task ids. The maps are keyed by task id and no operation reads another
\* id's entry, so one id shows every interleaving of a task's operations.
Tasks == {1}

MonIds == 1..MaxMonitors
RunIds == 1..MaxRuns

MonInit ==
  /\ periodicMonitors = [t \in Tasks |-> 0]
  /\ monStarts = {}
  /\ nMonStarts = 0
  /\ mons = <<>>
  /\ runs = <<>>

\* The context of execution e (taskCtx) is cancelled; 0 is a context nobody
\* cancels.
ExecCancelled(e) == e # 0 /\ execs[e].cancelled

\* monitorCtx of monitor m is done: its own cancel was called, or its parent
\* context (context.WithCancel(ctx)) is cancelled.
MonCancelled(m) == mons[m].cancelled \/ ExecCancelled(mons[m].parent)

\* CrawlAll's last statement: go eac.StartPeriodicMonitoring(ctx, task,
\* totalAvailable).
GoStartPeriodicMonitoring(t, parent, lastTotal) ==
  /\ nMonStarts' = nMonStarts + 1
  /\ monStarts' = monStarts \cup
       {[id |-> nMonStarts + 1, task |-> t, parent |-> parent,
         lastTotal |-> lastTotal]}

\* A CrawlAll of task t, run with a context nobody cancels, completes.
CrawlAllCompletes(t) ==
  /\ nMonStarts < MaxMonitors
  /\ GoStartPeriodicMonitoring(t, 0, upTotal)
  /\ UNCHANGED <<notMon, upTotal, periodicMonitors, mons, runs>>

\* The first CrawlAll of task t, run with a context nobody cancels,
\* completes (SpecTick follows the one monitor it starts).
FirstCrawlAllCompletes(t) ==
  /\ nMonStarts = 0
  /\ GoStartPeriodicMonitoring(t, 0, upTotal)
  /\ UNCHANGED <<notMon, upTotal, periodicMonitors, mons, runs>>

\* StartPeriodicMonitoring: under eac.mu, return if the task has an entry;
\* else monitorCtx, cancel := WithCancel(ctx), store cancel, and start the
\* monitor goroutine.
StartPeriodicMonitoring ==
  /\ \E s \in monStarts :
       /\ monStarts' = monStarts \ {s}
       /\ IF periodicMonitors[s.task] # 0
            THEN UNCHANGED <<mons, periodicMonitors>>
            ELSE /\ mons' = Append(mons, [task |-> s.task, parent |-> s.parent,
                                          cancelled |-> FALSE, pc |-> "select",
                                          lastTotal |-> s.lastTotal,
                                          fetchedTo |-> s.lastTotal,
                                          start |-> s.id])
                 /\ periodicMonitors' =
                      [periodicMonitors EXCEPT ![s.task] = Len(mons) + 1]
  /\ UNCHANGED <<notMon, upTotal, nMonStarts, runs>>

\* StopPeriodicMonitoring(taskID) on the monitor state: under eac.mu, cancel
\* the stored cancel function and delete the entry, if there is one.
StopMonitorOf(t) ==
  IF periodicMonitors[t] # 0
    THEN /\ mons' = [mons EXCEPT ![periodicMonitors[t]].cancelled = TRUE]
         /\ periodicMonitors' = [periodicMonitors EXCEPT ![t] = 0]
    ELSE UNCHANGED <<mons, periodicMonitors>>

\* StopPeriodicMonitoring called (by StopTask) for task t.
StopPeriodicMonitoring(t) ==
  /\ periodicMonitors[t] # 0
  /\ StopMonitorOf(t)
  /\ UNCHANGED <<notMon, upTotal, monStarts, nMonStarts, runs>>

\* Monitor goroutine: case <-monitorCtx.Done(): return; the deferred function
\* deletes eac.periodicMonitors[task.ID].
MonitorExits(m) ==
  /\ m <= Len(mons)
  /\ mons[m].pc = "select"
  /\ MonCancelled(m)
  /\ mons' = [mons EXCEPT ![m].pc = "exited"]
  /\ periodicMonitors' = [periodicMonitors EXCEPT ![mons[m].task] = 0]
  /\ UNCHANGED <<notMon, upTotal, monStarts, nMonStarts, runs>>

\* checkForNewProducts: currentTotal > lastTotal.
ShouldLaunch(currentTotal, lastTotal) == currentTotal > lastTotal

\* Monitor goroutine: case <-ticker.C: checkForNewProducts(monitorCtx, task,
\* lastTotal) reads the upstream total with one count-only request and, on
\* growth, runs go IncrementalCrawl(ctx, task, int(lastTotal)).
MonitorTickLaunches(m) ==
  /\ m <= Len(mons)
  /\ mons[m].pc = "select"
  /\ ~MonCancelled(m)
  /\ Len(runs) < MaxRuns
  /\ ShouldLaunch(upTotal, mons[m].lastTotal)
  /\ runs' = Append(runs, [task |-> mons[m].task, mon |-> m,
                           from |-> mons[m].lastTotal,
                           from0 |-> mons[m].lastTotal,
                           totalProcessed |-> 0, pc |-> "loop",
                           seen |-> upTotal, last |-> upTotal,
                           redundant |-> upTotal <= mons[m].fetchedTo])
  /\ UNCHANGED <<notMon, upTotal, periodicMonitors, monStarts, nMonStarts, mons>>

\* IncrementalCrawl, top of the loop: return when ctx is done, else issue
\* the page request for from.
IncLoop(r) ==
  /\ r <= Len(runs)
  /\ runs[r].pc = "loop"
  /\ runs' = [runs EXCEPT ![r].pc =
                IF MonCancelled(runs[r].mon) THEN "aborted" ELSE "request"]
  /\ UNCHANGED <<notMon, upTotal, periodicMonitors, monStarts, nMonStarts, mons>>

\* IncrementalCrawl: makeRequest or the parse fails: return.
IncRequestFail(r) ==
  /\ r <= Len(runs)
  /\ runs[r].pc = "request"
  /\ runs' = [runs EXCEPT ![r].pc = "aborted"]
  /\ UNCHANGED <<notMon, upTotal, periodicMonitors, monStarts, nMonStarts, mons>>

\* IncrementalCrawl: a parsed page. No hits: break. Else totalProcessed +=
\* productsCount; break on a short page; else from += pageSize and loop.
\* When the run ends, the records up to from0 + totalProcessed are fetched.
IncRequestOK(r) ==
  /\ r <= Len(runs)
  /\ runs[r].pc = "request"
  /\ LET hits == Hits(upTotal, runs[r].from, PageSize)
         done == hits < PageSize
         tp == runs[r].totalProcessed + hits
         m == runs[r].mon
     IN /\ runs' = [runs EXCEPT ![r] =
                      [@ EXCEPT !.totalProcessed = tp,
                                !.last = upTotal,
                                !.from = IF done THEN @ ELSE @ + PageSize,
                                !.pc = IF done THEN "done" ELSE "loop"]]
        /\ mons' = IF done
                     THEN [mons EXCEPT ![m].fetchedTo =
                             Max(@, runs[r].from0 + tp)]
                     ELSE mons
  /\ UNCHANGED <<notMon, upTotal, periodicMonitors, monStarts, nMonStarts>>

\* Records are added upstream.
UpstreamGrows ==
  /\ \E k \in 1..(MaxTotal - upTotal) : upTotal' = upTotal + k
  /\ UNCHANGED <<notMon, monVars>>

\* The monitor registry under crawl completions, stops and monitor exits.
MonNext ==
  \/ \E t \in Tasks : CrawlAllCompletes(t)
  \/ StartPeriodicMonitoring
  \/ \E t \in Tasks : StopPeriodicMonitoring(t)
  \/ \E m \in MonIds : MonitorExits(m)

\* One monitor, its ticks and its incremental runs against a growing upstream.
TickNext ==
  \/ \E t \in Tasks : FirstCrawlAllCompletes(t)
  \/ StartPeriodicMonitoring
  \/ \E t \in Tasks : StopPeriodicMonitoring(t)
  \/ \E m \in MonIds : MonitorExits(m)
  \/ \E m \in MonIds : MonitorTickLaunches(m)
  \/ \E r \in RunIds : IncLoop(r)
  \/ \E r \in RunIds : IncRequestFail(r)
  \/ \E r \in RunIds : IncRequestOK(r)
  \/ UpstreamGrows

\* ========================================================== CrawlerService
\* storage.TaskStatus values
TaskStatusPending == "pending"
TaskStatusRunning == "running"
TaskStatusPaused == "paused"
TaskStatusCompleted == "completed"
TaskStatusFailed == "failed"
TaskStatusStopped == "stopped"

CallIds == 1..MaxCalls

\* NewCrawlerService and freshly created task rows: status pending, no
\* handle. kind is the crawler the task's config selects.
SvcInit ==
  /\ kind \in [Tasks -> {"embroidery_api", "web"}]
  /\ status = [t \in Tasks |-> TaskStatusPending]
  /\ notifs = [t \in Tasks |-> <<>>]
  /\ activeTasks = [t \in Tasks |-> 0]
  /\ execs = <<>>
  /\ calls = <<>>

\* The service outside SpecSvc: no call is ever made.
SvcIdle ==
  /\ kind = [t \in Tasks |-> "embroidery_api"]
  /\ status = [t \in Tasks |-> TaskStatusPending]
  /\ notifs = [t \in Tasks |-> <<>>]
  /\ activeTasks = [t \in Tasks |-> 0]
  /\ execs = <<>>
  /\ calls = <<>>

\* The executions of task t whose goroutine has not ended.
LiveExecs(t) == {e \in 1..Len(execs) : execs[e].task = t /\ execs[e].pc # "done"}

\* The go StartPeriodicMonitoring(...) statements of task t whose goroutine
\* has not run yet or whose monitor has not ended.
LiveStarts(t) ==
  {s.id : s \in {x \in monStarts : x.task = t}} \cup
  {mons[m].start : m \in {x \in 1..Len(mons) :
                            mons[x].task = t /\ mons[x].pc # "exited"}}

\* A call record: op, task, position, the handle a stop read, and what was
\* live when a stop was called (history).
NewCall(op, t, pc) ==
  [op |-> op, task |-> t, pc |-> pc,
   handle |-> IF op = "stop" THEN activeTasks[t] ELSE 0,
   liveExecs |-> IF op = "stop" THEN LiveExecs(t) ELSE {},
   liveStarts |-> IF op = "stop" THEN LiveStarts(t) ELSE {}]

\* StartTask without the test of the status: every call proceeds.
StartTaskNoCheck(op, t) ==
  /\ Len(calls) < MaxCalls
  /\ calls' = Append(calls, NewCall(op, t, "update"))
  /\ UNCHANGED <<notSvc, poolVars, monVars, kind, status, notifs, activeTasks, execs>>

\* StartTask (op "start") or ResumeTask (op "resume", which is StartTask) is
\* called: GetTask; a running task is rejected ("task is already running").
StartTask(op, t) ==
  /\ Len(calls) < MaxCalls
  /\ calls' = Append(calls, NewCall(op, t,
                 IF status[t] = TaskStatusRunning THEN "rejected" ELSE "update"))
  /\ UNCHANGED <<notSvc, poolVars, monVars, kind, status, notifs, activeTasks, execs>>

\* StartTask: UpdateTaskStatus(ctx, taskID, running).
StartUpdateStatus(c) ==
  /\ c <= Len(calls)
  /\ calls[c].op \in {"start", "resume"}
  /\ calls[c].pc = "update"
  /\ status' = [status EXCEPT ![calls[c].task] = TaskStatusRunning]
  /\ calls' = [calls EXCEPT ![c].pc = "broadcast"]
  /\ UNCHANGED <<notSvc, poolVars, monVars, kind, notifs, activeTasks, execs>>

\* StartTask: BroadcastTaskStatus(taskID, running) and the log line.
StartBroadcast(c) ==
  /\ c <= Len(calls)
  /\ calls[c].op \in {"start", "resume"}
  /\ calls[c].pc = "broadcast"
  /\ notifs' = [notifs EXCEPT ![calls[c].task] = Append(@, TaskStatusRunning)]
  /\ calls' = [calls EXCEPT ![c].pc = "register"]
  /\ UNCHANGED <<notSvc, poolVars, monVars, kind, status, activeTasks, execs>>

\* StartTask: taskCtx, cancel := WithCancel(Background()); under cs.mu,
\* activeTasks[taskID] = cancel; workerPool.Start(); go func() {...}; return.
StartRegister(c) ==
  /\ c <= Len(calls)
  /\ calls[c].pc = "register"
  /\ execs' = Append(execs, [task |-> calls[c].task, pc |-> "crawl",
                             cancelled |-> FALSE, err |-> "none"])
  /\ activeTasks' = [activeTasks EXCEPT ![calls[c].task] = Len(execs) + 1]
  /\ StartWorkers
  /\ calls' = [calls EXCEPT ![c].pc = "done"]
  /\ UNCHANGED <<notSvc, monVars, kind, status, notifs, wpCancelled, jobChan,
                 jobClosed, stopPc, submits, executed, inFlightAtStop>>

\* StopTask is called: under cs.mu, cancel, exists := activeTasks[taskID].
StopTask(t) ==
  /\ Len(calls) < MaxCalls
  /\ calls' = Append(calls, NewCall("stop", t, "cancel"))
  /\ UNCHANGED <<notSvc, poolVars, monVars, kind, status, notifs, activeTasks, execs>>

\* StopTask: if exists { cancel() }.
StopCancelExec(c) ==
  /\ c <= Len(calls)
  /\ calls[c].pc = "cancel"
  /\ execs' = IF calls[c].handle # 0
                THEN [execs EXCEPT ![calls[c].handle].cancelled = TRUE]
                ELSE execs
  /\ calls' = [calls EXCEPT ![c].pc = "monitor"]
  /\ UNCHANGED <<notSvc, poolVars, monVars, kind, status, notifs, activeTasks>>

\* StopTask: cs.embroideryCrawler.StopPeriodicMonitoring(taskID).
StopMonitor(c) ==
  /\ c <= Len(calls)
  /\ calls[c].pc = "monitor"
  /\ StopMonitorOf(calls[c].task)
  /\ calls' = [calls EXCEPT ![c].pc = "broadcast"]
  /\ UNCHANGED <<notSvc, poolVars, monStarts, nMonStarts, runs, kind, status,
                 notifs, activeTasks, execs>>

\* StopTask: the log line and BroadcastTaskStatus(taskID, stopped).
StopBroadcast(c) ==
  /\ c <= Len(calls)
  /\ calls[c].op = "stop"
  /\ calls[c].pc = "broadcast"
  /\ notifs' = [notifs EXCEPT ![calls[c].task] = Append(@, TaskStatusStopped)]
  /\ calls' = [calls EXCEPT ![c].pc = "update"]
  /\ UNCHANGED <<notSvc, poolVars, monVars, kind, status, activeTasks, execs>>

\* StopTask: return UpdateTaskStatus(ctx, taskID, stopped).
StopUpdateStatus(c) ==
  /\ c <= Len(calls)
  /\ calls[c].op = "stop"
  /\ calls[c].pc = "update"
  /\ status' = [status EXCEPT ![calls[c].task] = TaskStatusStopped]
  /\ calls' = [calls EXCEPT ![c].pc = "done"]
  /\ UNCHANGED <<notSvc, poolVars, monVars, kind, notifs, activeTasks, execs>>

\* A PauseTask that cancels the execution the way StopTask does.
PauseTaskCancelling(t) ==
  /\ Len(calls) < MaxCalls
  /\ status' = [status EXCEPT ![t] = TaskStatusPaused]
  /\ execs' = IF activeTasks[t] # 0
                THEN [execs EXCEPT ![activeTasks[t]].cancelled = TRUE]
                ELSE execs
  /\ calls' = Append(calls, NewCall("pause", t, "done"))
  /\ UNCHANGED <<notSvc, poolVars, monVars, kind, notifs, activeTasks>>

\* PauseTask: return UpdateTaskStatus(ctx, taskID, paused).
PauseTask(t) ==
  /\ Len(calls) < MaxCalls
  /\ status' = [status EXCEPT ![t] = TaskStatusPaused]
  /\ calls' = Append(calls, NewCall("pause", t, "done"))
  /\ UNCHANGED <<notSvc, poolVars, monVars, kind, notifs, activeTasks, execs>>

\* The goroutine of StartTask: CrawlAll returns nil, having run
\* go StartPeriodicMonitoring(ctx, task, totalAvailable); the web crawler's
\* Crawl returns nil.
ExecCrawlNil(e) ==
  /\ e <= Len(execs)
  /\ execs[e].pc = "crawl"
  /\ execs' = [execs EXCEPT ![e].pc = "write", ![e].err = "nil"]
  /\ IF kind[execs[e].task] = "embroidery_api"
       THEN /\ nMonStarts < MaxMonitors
            /\ GoStartPeriodicMonitoring(execs[e].task, e, upTotal)
       ELSE UNCHANGED <<monStarts, nMonStarts>>
  /\ UNCHANGED <<notSvc, poolVars, periodicMonitors, mons, runs, kind, status,
                 notifs, activeTasks, calls>>

\* The goroutine of StartTask: the crawl sees its context done and returns
\* ctx.Err().
ExecCrawlCancelled(e) ==
  /\ e <= Len(execs)
  /\ execs[e].pc = "crawl"
  /\ execs[e].cancelled
  /\ execs' = [execs EXCEPT ![e].pc = "write", ![e].err = "cancelled"]
  /\ UNCHANGED <<notSvc, poolVars, monVars, kind, status, notifs, activeTasks, calls>>

\* The goroutine of StartTask: the web crawler's Crawl returns an error of
\* its own (a fetch that failed).
ExecCrawlFails(e) ==
  /\ e <= Len(execs)
  /\ execs[e].pc = "crawl"
  /\ kind[execs[e].task] = "web"
  /\ execs' = [execs EXCEPT ![e].pc = "write", ![e].err = "error"]
  /\ UNCHANGED <<notSvc, poolVars, monVars, kind, status, notifs, activeTasks, calls>>

\* The status the goroutine of StartTask reports for the crawl's result.
OutcomeStatus(err) == IF err = "nil" THEN TaskStatusCompleted ELSE TaskStatusFailed

\* The goroutine of StartTask: UpdateTaskStatus(taskCtx, taskID, failed or
\* completed); the statement fails when taskCtx is done.
ExecWriteStatus(e) ==
  /\ e <= Len(execs)
  /\ execs[e].pc = "write"
  /\ status' = IF execs[e].cancelled
                 THEN status
                 ELSE [status EXCEPT ![execs[e].task] = OutcomeStatus(execs[e].err)]
  /\ execs' = [execs EXCEPT ![e].pc = "broadcast"]
  /\ UNCHANGED <<notSvc, poolVars, monVars, kind, notifs, activeTasks, calls>>

\* The goroutine of StartTask: BroadcastTaskStatus(taskID, failed or
\* completed).
ExecBroadcast(e) ==
  /\ e <= Len(execs)
  /\ execs[e].pc = "broadcast"
  /\ notifs' = [notifs EXCEPT ![execs[e].task] = Append(@, OutcomeStatus(execs[e].err))]
  /\ execs' = [execs EXCEPT ![e].pc = "defer"]
  /\ UNCHANGED <<notSvc, poolVars, monVars, kind, status, activeTasks, calls>>

\* The goroutine of StartTask, deferred: under cs.mu,
\* delete(cs.activeTasks, taskID).
ExecCleanup(e) ==
  /\ e <= Len(execs)
  /\ execs[e].pc = "defer"
  /\ activeTasks' = [activeTasks EXCEPT ![execs[e].task] = 0]
  /\ execs' = [execs EXCEPT ![e].pc = "done"]
  /\ UNCHANGED <<notSvc, poolVars, monVars, kind, status, notifs, calls>>

SvcNext ==
  \/ \E op \in {"start", "resume"}, t \in Tasks : StartTask(op, t)
  \/ \E c \in CallIds : StartUpdateStatus(c)
  \/ \E c \in CallIds : StartBroadcast(c)
  \/ \E c \in CallIds : StartRegister(c)
  \/ \E t \in Tasks : StopTask(t)
  \/ \E c \in CallIds : StopCancelExec(c)
  \/ \E c \in CallIds : StopMonitor(c)
  \/ \E c \in CallIds : StopBroadcast(c)
  \/ \E c \in CallIds : StopUpdateStatus(c)
  \/ \E t \in Tasks : PauseTask(t)
  \/ \E e \in CallIds : ExecCrawlNil(e)
  \/ \E e \in CallIds : ExecCrawlCancelled(e)
  \/ \E e \in CallIds : ExecCrawlFails(e)
  \/ \E e \in CallIds : ExecWriteStatus(e)
  \/ \E e \in CallIds : ExecBroadcast(e)
  \/ \E e \in CallIds : ExecCleanup(e)
  \/ StartPeriodicMonitoring
  \/ \E m \in MonIds : MonitorExits(m)

\* ============================================================ proxy health
Proxies == 1..NumProxies

\* Everything outside the proxy table.
notProxy ==
  <<upTotal, poolVars, crawlVars, monVars, svcVars, retryVars, payloadVars, limVars,
    mgrVars, lockVars>>

\* CreateProxy: a new row is active with failure_count 0.
ProxyInit ==
  /\ proxyRows = [p \in Proxies |-> [isActive |-> TRUE, failureCount |-> 0]]
  /\ consecFailures = [p \in Proxies |-> 0]
  /\ everHealthy = [p \in Proxies |-> FALSE]
  /\ hcPos = 0
  /\ nHealth = 0

\* Repository.UpdateProxyHealth: the row after the UPDATE.
UpdateProxyHealth(row, isHealthy) ==
  IF isHealthy
    THEN [isActive |-> TRUE, failureCount |-> 0]
    ELSE [isActive |-> FALSE, failureCount |-> row.failureCount + 1]

\* A health result for proxy p is written to its row.
ApplyHealth(p, isHealthy) ==
  /\ nHealth < MaxHealthResults
  /\ nHealth' = nHealth + 1
  /\ proxyRows' = [proxyRows EXCEPT ![p] = UpdateProxyHealth(@, isHealthy)]
  /\ consecFailures' = [consecFailures EXCEPT ![p] = IF isHealthy THEN 0 ELSE @ + 1]
  /\ everHealthy' = [everHealthy EXCEPT ![p] = @ \/ isHealthy]

\* CheckAllProxies is called: the loop starts at the first proxy.
CheckAllBegin ==
  /\ hcPos = 0
  /\ nHealth < MaxHealthResults
  /\ hcPos' = 1
  /\ UNCHANGED <<notProxy, proxyRows, consecFailures, everHealthy, nHealth>>

\* One iteration: CheckProxy returned (healthy, nil); UpdateProxyHealth.
CheckProxyResult(healthy) ==
  /\ hcPos \in Proxies
  /\ ApplyHealth(hcPos, healthy)
  /\ hcPos' = IF hcPos = NumProxies THEN 0 ELSE hcPos + 1
  /\ UNCHANGED notProxy

\* One iteration: CheckProxy returned an error (bad proxy URL): continue.
CheckProxyError ==
  /\ hcPos \in Proxies
  /\ hcPos' = IF hcPos = NumProxies THEN 0 ELSE hcPos + 1
  /\ UNCHANGED <<notProxy, proxyRows, consecFailures, everHealthy, nHealth>>

\* Manager.ReportProxyFailure: UpdateProxyHealth(ctx, proxy.ID, false).
ReportProxyFailure(p) ==
  /\ ApplyHealth(p, FALSE)
  /\ UNCHANGED <<notProxy, hcPos>>

\* Handlers.TestProxy on a stored proxy: UpdateProxyHealth(ctx, id, healthy).
TestProxy(p, healthy) ==
  /\ ApplyHealth(p, healthy)
  /\ UNCHANGED <<notProxy, hcPos>>

ProxyNext ==
  \/ CheckAllBegin
  \/ \E h \in BOOLEAN : CheckProxyResult(h)
  \/ CheckProxyError
  \/ \E p \in Proxies : ReportProxyFailure(p)
  \/ \E p \in Proxies, h \in BOOLEAN : TestProxy(p, h)

\* =================================================================== Retry
\* Everything outside the Retry call.
notRetry ==
  <<upTotal, poolVars, crawlVars, monVars, svcVars, proxyVars, payloadVars, limVars,
    mgrVars, lockVars>>

RetryConfigs ==
  [maxAttempts : 0..MaxAttemptsBound, multiplier : 0..MaxMultiplier,
   initialDelay : 1..MaxInitialDelay, maxDelay : {MaxDelayCap, 30}]

\* math.Pow on the small non-negative integers of the model (Pow(0, 0) = 1).
RECURSIVE Pow(_, _)
Pow(b, e) == IF e = 0 THEN 1 ELSE b * Pow(b, e - 1)

\* No call of Retry is in progress.
RetryIdle ==
  /\ rcfg = [maxAttempts |-> 0, multiplier |-> 0, initialDelay |-> 1,
             maxDelay |-> MaxDelayCap]
  /\ rpc = "returned"
  /\ attempt = 1
  /\ lastErr = 0
  /\ rCancelled = FALSE
  /\ timerFired = FALSE
  /\ invocations = 0
  /\ delays = <<>>
  /\ rResult = "none"
  /\ cancelledAt = "none"
  /\ invAtCancel = 0

\* Retry is called: lastErr = nil, delay := config.InitialDelay, attempt := 1.
RetryInit ==
  /\ rcfg \in RetryConfigs
  /\ rpc = "loop"
  /\ attempt = 1
  /\ lastErr = 0
  /\ rCancelled = FALSE
  /\ timerFired = FALSE
  /\ invocations = 0
  /\ delays = <<>>
  /\ rResult = "none"
  /\ cancelledAt = "none"
  /\ invAtCancel = 0

\* The backoff computation: delay * Pow(multiplier, attempt-1), where delay
\* is config.InitialDelay throughout, capped at config.MaxDelay.
NextDelayUncapped(cfg, att) == cfg.initialDelay * Pow(cfg.multiplier, att - 1)

NextDelayConstant(cfg, att) == Min(cfg.initialDelay, cfg.maxDelay)

NextDelay(cfg, att) ==
  Min(cfg.initialDelay * Pow(cfg.multiplier, att - 1), cfg.maxDelay)

\* The loop condition fails before any attempt (MaxAttempts < 1): the code
\* after the loop returns lastErr, which is nil.
RetryNoAttempts ==
  /\ rpc = "loop"
  /\ attempt > rcfg.maxAttempts
  /\ rpc' = "returned"
  /\ rResult' = IF lastErr = 0 THEN "nil" ELSE <<"err", lastErr>>
  /\ UNCHANGED <<notRetry, rcfg, attempt, lastErr, rCancelled, timerFired,
                 invocations, delays, cancelledAt, invAtCancel>>

\* Top of an iteration, ctx done: return ctx.Err().
RetryCheckCancelled ==
  /\ rpc = "loop"
  /\ attempt <= rcfg.maxAttempts
  /\ rCancelled
  /\ rpc' = "returned"
  /\ rResult' = "cancelled"
  /\ UNCHANGED <<notRetry, rcfg, attempt, lastErr, rCancelled, timerFired,
                 invocations, delays, cancelledAt, invAtCancel>>

\* An attempt that starts without looking at ctx.
RetryAttemptUnchecked ==
  /\ rpc = "loop"
  /\ attempt <= rcfg.maxAttempts
  /\ rpc' = "invoke"
  /\ invocations' = invocations + 1
  /\ UNCHANGED <<notRetry, rcfg, attempt, lastErr, rCancelled, timerFired,
                 delays, rResult, cancelledAt, invAtCancel>>

\* Top of an iteration, ctx not done: fn() is called.
RetryAttempt ==
  /\ rpc = "loop"
  /\ attempt <= rcfg.maxAttempts
  /\ ~rCancelled
  /\ rpc' = "invoke"
  /\ invocations' = invocations + 1
  /\ UNCHANGED <<notRetry, rcfg, attempt, lastErr, rCancelled, timerFired,
                 delays, rResult, cancelledAt, invAtCancel>>

\* fn() returned nil: return nil.
FnSucceeds ==
  /\ rpc = "invoke"
  /\ rpc' = "returned"
  /\ rResult' = "nil"
  /\ UNCHANGED <<notRetry, rcfg, attempt, lastErr, rCancelled, timerFired,
                 invocations, delays, cancelledAt, invAtCancel>>

\* A failure that ends Retry at once.
FnFailsNoRetry ==
  /\ rpc = "invoke"
  /\ lastErr' = attempt
  /\ rpc' = "returned"
  /\ rResult' = <<"err", attempt>>
  /\ UNCHANGED <<notRetry, rcfg, attempt, rCancelled, timerFired, invocations,
                 delays, cancelledAt, invAtCancel>>

\* fn() returned an error: lastErr = err; before the last attempt compute
\* nextDelay and start the backoff; after the last attempt the loop ends and
\* Retry returns lastErr.
FnFails ==
  /\ rpc = "invoke"
  /\ lastErr' = attempt
  /\ IF attempt < rcfg.maxAttempts
       THEN /\ delays' = Append(delays, NextDelay(rcfg, attempt))
            /\ timerFired' = FALSE
            /\ rpc' = "backoff"
            /\ UNCHANGED rResult
       ELSE /\ rpc' = "returned"
            /\ rResult' = <<"err", attempt>>
            /\ UNCHANGED <<delays, timerFired>>
  /\ UNCHANGED <<notRetry, rcfg, attempt, rCancelled, invocations,
                 cancelledAt, invAtCancel>>

\* nextDelay has passed: the time.After channel becomes ready.
TimerFires ==
  /\ rpc = "backoff"
  /\ ~timerFired
  /\ timerFired' = TRUE
  /\ UNCHANGED <<notRetry, rcfg, rpc, attempt, lastErr, rCancelled, invocations,
                 delays, rResult, cancelledAt, invAtCancel>>

\* The backoff select takes the timer case: attempt++.
BackoffElapsed ==
  /\ rpc = "backoff"
  /\ timerFired
  /\ attempt' = attempt + 1
  /\ rpc' = "loop"
  /\ UNCHANGED <<notRetry, rcfg, lastErr, rCancelled, timerFired, invocations,
                 delays, rResult, cancelledAt, invAtCancel>>

\* The backoff select takes the ctx.Done() case: return ctx.Err().
BackoffCancelled ==
  /\ rpc = "backoff"
  /\ rCancelled
  /\ rpc' = "returned"
  /\ rResult' = "cancelled"
  /\ UNCHANGED <<notRetry, rcfg, attempt, lastErr, rCancelled, timerFired,
                 invocations, delays, cancelledAt, invAtCancel>>

\* The caller cancels ctx while Retry runs (or had cancelled it at the call).
CancelRetry ==
  /\ rpc # "returned"
  /\ ~rCancelled
  /\ rCancelled' = TRUE
  /\ cancelledAt' = IF rpc = "loop" /\ attempt > rcfg.maxAttempts
                      THEN "no_attempts" ELSE rpc
  /\ invAtCancel' = invocations
  /\ UNCHANGED <<notRetry, rcfg, rpc, attempt, lastErr, timerFired, invocations,
                 delays, rResult>>

RetryNext ==
  \/ RetryNoAttempts
  \/ RetryCheckCancelled
  \/ RetryAttempt
  \/ FnSucceeds
  \/ FnFails
  \/ TimerFires
  \/ BackoffElapsed
  \/ BackoffCancelled
  \/ CancelRetry

\* ================================================= BuildEmbroideryPayload
\* Everything outside the payload builder.
notPayload ==
  <<upTotal, poolVars, crawlVars, monVars, svcVars, proxyVars, retryVars, limVars,
    mgrVars, lockVars>>

\* JSON values as Go holds them.  A map is a function from its keys; its kind
\* is the Go type: "imap" is map[string]interface{}, "smap" is
\* map[string]string.  Arrays and scalars are atoms.
Scalar(a) == [kind |-> "scalar", atom |-> a]
Arr(a) == [kind |-> "arr", atom |-> a]
IMap(f) == [kind |-> "imap", kids |-> f]
SMap(f) == [kind |-> "smap", kids |-> f]
EmptyMap == [k \in {} |-> Scalar(0)]

\* defaultEmbroideryPayload, with one of its four aggregations (they have the
\* same shape); arrays are numbered; the keys _source and _count are written
\* source and count.
defaultEmbroideryPayload(frm, size) ==
  [track_total_hits |-> Scalar(1),
   sort |-> Arr(1),
   source |-> IMap([excludes |-> Arr(2)]),
   query |-> IMap([bool |-> IMap([should |-> Arr(3), must |-> Arr(4),
                                  must_not |-> Arr(5)])]),
   from |-> Scalar(frm),
   size |-> Scalar(size),
   aggs |-> IMap([Brands |-> IMap([terms |->
              IMap([field |-> Scalar(2),
                    order |-> SMap([count |-> Scalar(3)]),
                    size |-> Scalar(1000)])])])]

\* mergeEmbroideryOverrides whose test accepts every map type.
RECURSIVE mergeAnyMaps(_, _)
mergeAnyMaps(target, overrides) ==
  [key \in DOMAIN target \cup DOMAIN overrides |->
     IF key \notin DOMAIN overrides THEN target[key]
     ELSE IF /\ key \in DOMAIN target
             /\ overrides[key].kind \in {"imap", "smap"}
             /\ target[key].kind \in {"imap", "smap"}
            THEN [kind |-> target[key].kind,
                  kids |-> mergeAnyMaps(target[key].kids, overrides[key].kids)]
            ELSE overrides[key]]

\* mergeEmbroideryOverrides: the target after the loop.  A key is merged
\* recursively when the override value is a map[string]interface{}, the
\* target has the key and its value is a map[string]interface{} too;
\* otherwise target[key] = value.
RECURSIVE mergeEmbroideryOverrides(_, _)
mergeEmbroideryOverrides(target, overrides) ==
  [key \in DOMAIN target \cup DOMAIN overrides |->
     IF key \notin DOMAIN overrides THEN target[key]
     ELSE IF /\ key \in DOMAIN target
             /\ overrides[key].kind = "imap"
             /\ target[key].kind = "imap"
            THEN IMap(mergeEmbroideryOverrides(target[key].kids,
                                               overrides[key].kids))
            ELSE overrides[key]]

\* The overrides of the model: per top-level key, what the overrides hold
\* for it ("skip": the key is not named).  Overrides are decoded JSON, so
\* their objects are map[string]interface{}.
Skip == [kind |-> "skip", atom |-> 0]
OverrideChoices ==
  [from : {Skip, Scalar(999), IMap([gte |-> Scalar(5)])},
   size : {Skip, Scalar(7)},
   query : {Skip,
            IMap([bool |-> IMap([must |-> Arr(6)])]),
            IMap([bool |-> Scalar(4)]),
            IMap(EmptyMap)},
   aggs : {Skip,
           Arr(7),
           IMap([Brands |-> IMap([terms |-> IMap([size |-> Scalar(5)])])]),
           IMap([Brands |-> IMap([terms |->
              IMap([order |-> IMap([key |-> Scalar(4)])])])])},
   extra : {Skip, Scalar(8), IMap([deep |-> Scalar(9)])}]

OverridesOf(choice) ==
  [key \in {k \in DOMAIN choice : choice[k].kind # "skip"} |-> choice[key]]

PayloadIdle ==
  /\ payFrom = 0
  /\ paySize = 1
  /\ payOverrides = EmptyMap
  /\ payload = EmptyMap
  /\ payPc = "idle"

\* BuildEmbroideryPayload is called with from, size and overrides.
PayloadInit ==
  /\ payFrom \in 0..MaxPayFrom
  /\ paySize \in 1..MaxPaySize
  /\ payOverrides \in {OverridesOf(c) : c \in OverrideChoices}
  /\ payload = EmptyMap
  /\ payPc = "called"

\* payload := defaultEmbroideryPayload(from, size)
PayloadDefault ==
  /\ payPc = "called"
  /\ payload' = defaultEmbroideryPayload(payFrom, paySize)
  /\ payPc' = "default"
  /\ UNCHANGED <<notPayload, payFrom, paySize, payOverrides>>

\* if len(overrides) > 0 { mergeEmbroideryOverrides(payload, overrides) }
PayloadMerge ==
  /\ payPc = "default"
  /\ payload' = IF DOMAIN payOverrides # {}
                  THEN mergeEmbroideryOverrides(payload, payOverrides)
                  ELSE payload
  /\ payPc' = "merged"
  /\ UNCHANGED <<notPayload, payFrom, paySize, payOverrides>>

\* A return of the merged payload as it is.
PayloadReturnMerged ==
  /\ payPc = "merged"
  /\ payPc' = "returned"
  /\ UNCHANGED <<notPayload, payFrom, paySize, payOverrides, payload>>

\* payload["from"] = from; payload["size"] = size; return payload
PayloadSetPaging ==
  /\ payPc = "merged"
  /\ payload' = [payload EXCEPT !["from"] = Scalar(payFrom),
                                !["size"] = Scalar(paySize)]
  /\ payPc' = "returned"
  /\ UNCHANGED <<notPayload, payFrom, paySize, payOverrides>>

PayloadNext ==
  \/ PayloadDefault
  \/ PayloadMerge
  \/ PayloadSetPaging

\* ======================================================= DomainRateLimiter
\* Everything outside the rate limiter.
notLim ==
  <<upTotal, poolVars, crawlVars, monVars, svcVars, proxyVars, retryVars, payloadVars,
    mgrVars, lockVars>>

Domains == {"a", "b"}
WaitIds == 1..MaxWaits

\* NewRateLimiter(requestsPerSecond): rate.NewLimiter(r, r), a full bucket
\* whose burst is the rate.
Burst(perTick) == perTick * TicksPerSecond
NewRateLimiter(perTick) ==
  [perTick |-> perTick, tokens |-> Burst(perTick), born |-> lnow, taken |-> 0]

\* NewDomainRateLimiter(globalRPS): the global limiter and no domain entry.
LimInit ==
  /\ lnow = 0
  /\ buckets = <<[perTick |-> GlobalPerTick, tokens |-> Burst(GlobalPerTick),
                  born |-> 0, taken |-> 0]>>
  /\ limiters = [d \in Domains |-> 0]
  /\ waits = <<>>

\* SetDomainRate(domain, rps): drl.limiters[domain] = NewRateLimiter(rps).
SetDomainRate(d, perTick) ==
  /\ Len(buckets) < 1 + MaxSetRates
  /\ buckets' = Append(buckets, NewRateLimiter(perTick))
  /\ limiters' = [limiters EXCEPT ![d] = Len(buckets) + 1]
  /\ UNCHANGED <<notLim, lnow, waits>>

\* WaitForDomain(ctx, domain) is called: drl.global.Wait(ctx) begins.
WaitForDomain(d) ==
  /\ Len(waits) < MaxWaits
  /\ waits' = Append(waits, [domain |-> d, pc |-> "global", saw |-> 0])
  /\ UNCHANGED <<notLim, lnow, buckets, limiters>>

\* limiter.Wait takes one token of bucket b.
TakeToken(b) ==
  /\ buckets[b].tokens >= 1
  /\ buckets' = [buckets EXCEPT ![b].tokens = @ - 1, ![b].taken = @ + 1]

\* A global wait that needs no token.
GlobalWaitFree(c) ==
  /\ c <= Len(waits)
  /\ waits[c].pc = "global"
  /\ LET b == limiters[waits[c].domain] IN
       waits' = [waits EXCEPT ![c].saw = b,
                              ![c].pc = IF b # 0 THEN "domain" ELSE "admitted"]
  /\ UNCHANGED <<notLim, lnow, buckets, limiters>>

\* drl.global.Wait(ctx) returns nil; the domain's entry is looked up: with an
\* entry limiter.Wait(ctx) begins, without one WaitForDomain returns nil.
GlobalWaitDone(c) ==
  /\ c <= Len(waits)
  /\ waits[c].pc = "global"
  /\ TakeToken(1)
  /\ LET b == limiters[waits[c].domain] IN
       waits' = [waits EXCEPT ![c].saw = b,
                              ![c].pc = IF b # 0 THEN "domain" ELSE "admitted"]
  /\ UNCHANGED <<notLim, lnow, limiters>>

\* limiter.Wait(ctx) of the domain's limiter returns nil.
DomainWaitDone(c) ==
  /\ c <= Len(waits)
  /\ waits[c].pc = "domain"
  /\ TakeToken(waits[c].saw)
  /\ waits' = [waits EXCEPT ![c].pc = "admitted"]
  /\ UNCHANGED <<notLim, lnow, limiters>>

\* A Wait returns an error: ctx is cancelled while it waits, or the
\* limiter's burst is 0; WaitForDomain returns the error.
WaitFails(c) ==
  /\ c <= Len(waits)
  /\ waits[c].pc \in {"global", "domain"}
  /\ waits' = [waits EXCEPT ![c].pc = "error"]
  /\ UNCHANGED <<notLim, lnow, buckets, limiters>>

\* A tick passes: every limiter gains its tokens, up to its burst.
LimiterTick ==
  /\ lnow < MaxTicks
  /\ lnow' = lnow + 1
  /\ buckets' = [b \in DOMAIN buckets |->
       [buckets[b] EXCEPT !.tokens =
          Min(Burst(buckets[b].perTick), @ + buckets[b].perTick)]]
  /\ UNCHANGED <<notLim, limiters, waits>>

LimNext ==
  \/ \E d \in Domains, r \in 0..MaxDomainPerTick : SetDomainRate(d, r)
  \/ \E d \in Domains : WaitForDomain(d)
  \/ \E c \in WaitIds : GlobalWaitDone(c)
  \/ \E c \in WaitIds : DomainWaitDone(c)
  \/ \E c \in WaitIds : WaitFails(c)
  \/ LimiterTick

\* ============================================================ proxy.Manager
\* Everything outside the manager and the proxies table.
notMgr ==
  <<upTotal, poolVars, crawlVars, monVars, svcVars, retryVars, payloadVars, limVars,
    consecFailures, everHealthy, hcPos, nHealth, lockVars>>

\* The variables of the health routine and those of the makeRequest call.
hcVars == <<hcPc, hcTodo, hcSnapshot, hcChecked, stopChan, hcTicks, hcCycles, hcReloads>>
mrVars == <<mrPc, currentProxy, clientProxy, mrAttempt, mrFailures, mrReports, mrGets>>

\* NewManager: an empty pool, stopChan open, no goroutine.
MgrIdle ==
  /\ mpool = {}
  /\ hcPc = "off"
  /\ hcTodo = {}
  /\ hcSnapshot = {}
  /\ hcChecked = {}
  /\ stopChan = FALSE
  /\ hcTicks = 0
  /\ hcCycles = 0
  /\ hcReloads = 0
  /\ nManual = 0
  /\ mrPc = "idle"
  /\ currentProxy = 0
  /\ clientProxy = 0
  /\ mrAttempt = 0
  /\ mrFailures = 0
  /\ mrReports = <<>>
  /\ mrGets = 0

\* The proxies table when the manager is built: each row is active, or was
\* deactivated by one failure.
StoreInit ==
  /\ proxyRows \in [Proxies -> {[isActive |-> TRUE, failureCount |-> 0],
                                [isActive |-> FALSE, failureCount |-> 1]}]
  /\ consecFailures = [p \in Proxies |-> 0]
  /\ everHealthy = [p \in Proxies |-> FALSE]
  /\ hcPos = 0
  /\ nHealth = 0

\* Repository.GetActiveProxies: the rows WHERE is_active = true.
GetActiveProxies(rows) == {p \in Proxies : rows[p].isActive}

\* ProxyPool.GetProxy: a random proxy of the pool, nil (0) when it is empty.
GetProxy(pl) == IF pl = {} THEN {0} ELSE pl

\* Manager.Start with proxying enabled: LoadProxies;
\* go m.healthCheckRoutine(ctx).
ManagerStart ==
  /\ hcPc = "off"
  /\ mpool' = GetActiveProxies(proxyRows)
  /\ hcPc' = "initial"
  /\ UNCHANGED <<notMgr, proxyRows, hcTodo, hcSnapshot, hcChecked, stopChan,
                 hcTicks, hcCycles, hcReloads, nManual, mrVars>>

\* performHealthCheck is entered: proxies := m.pool.GetAllProxies();
\* if len(proxies) == 0 { return }; otherwise CheckAllProxies begins.
performHealthCheck ==
  /\ hcCycles' = hcCycles + 1
  /\ hcSnapshot' = mpool
  /\ hcChecked' = {}
  /\ hcTodo' = mpool
  /\ hcPc' = IF mpool = {} THEN "select" ELSE "check"

\* healthCheckRoutine: the initial health check.
HealthInitial ==
  /\ hcPc = "initial"
  /\ performHealthCheck
  /\ UNCHANGED <<notMgr, proxyRows, mpool, stopChan, hcTicks, hcReloads, nManual,
                 mrVars>>

\* healthCheckRoutine: case <-ticker.C.
HealthTick ==
  /\ hcPc = "select"
  /\ hcTicks < MaxHealthTicks
  /\ hcTicks' = hcTicks + 1
  /\ performHealthCheck
  /\ UNCHANGED <<notMgr, proxyRows, mpool, stopChan, hcReloads, nManual, mrVars>>

\* healthCheckRoutine: case <-m.stopChan.
HealthExit ==
  /\ hcPc = "select"
  /\ stopChan
  /\ hcPc' = "exited"
  /\ UNCHANGED <<notMgr, proxyRows, mpool, hcTodo, hcSnapshot, hcChecked, stopChan,
                 hcTicks, hcCycles, hcReloads, nManual, mrVars>>

\* CheckAllProxies, one iteration: CheckProxy returned (healthy, nil);
\* UpdateProxyHealth(ctx, proxy.ID, healthy).
HealthCheckOne(p, healthy) ==
  /\ hcPc = "check"
  /\ p \in hcTodo
  /\ proxyRows' = [proxyRows EXCEPT ![p] = UpdateProxyHealth(@, healthy)]
  /\ hcTodo' = hcTodo \ {p}
  /\ hcChecked' = hcChecked \cup {p}
  /\ UNCHANGED <<notMgr, mpool, hcPc, hcSnapshot, stopChan, hcTicks, hcCycles,
                 hcReloads, nManual, mrVars>>

\* CheckAllProxies, one iteration: CheckProxy returned an error (a proxy URL
\* that cannot be built): continue.
HealthCheckError(p) ==
  /\ hcPc = "check"
  /\ p \in hcTodo
  /\ hcTodo' = hcTodo \ {p}
  /\ hcChecked' = hcChecked \cup {p}
  /\ UNCHANGED <<notMgr, proxyRows, mpool, hcPc, hcSnapshot, stopChan, hcTicks,
                 hcCycles, hcReloads, nManual, mrVars>>

\* performHealthCheck after CheckAllProxies: m.pool.LoadProxies(ctx).
HealthReload ==
  /\ hcPc = "check"
  /\ hcTodo = {}
  /\ mpool' = GetActiveProxies(proxyRows)
  /\ hcReloads' = hcReloads + 1
  /\ hcPc' = "select"
  /\ UNCHANGED <<notMgr, proxyRows, hcTodo, hcSnapshot, hcChecked, stopChan,
                 hcTicks, hcCycles, nManual, mrVars>>

\* Manager.Stop: close(m.stopChan).
ManagerStop ==
  /\ hcPc # "off"
  /\ ~stopChan
  /\ stopChan' = TRUE
  /\ UNCHANGED <<notMgr, proxyRows, mpool, hcPc, hcTodo, hcSnapshot, hcChecked,
                 hcTicks, hcCycles, hcReloads, nManual, mrVars>>

\* Handlers.TestProxy on a stored proxy: UpdateProxyHealth(ctx, id, healthy);
\* ReloadProxies.
ManualTest(p, healthy) ==
  /\ hcPc # "off"
  /\ nManual < MaxManualTests
  /\ nManual' = nManual + 1
  /\ proxyRows' = [proxyRows EXCEPT ![p] = UpdateProxyHealth(@, healthy)]
  /\ mpool' = GetActiveProxies(proxyRows')
  /\ UNCHANGED <<notMgr, hcVars, mrVars>>

\* makeRequest: currentProxy, err = GetProxy(); client = GetHTTPClient(ctx,
\* currentProxy); utils.Retry calls the closure for the first time.
MakeRequestBegin ==
  /\ hcPc # "off"
  /\ mrPc = "idle"
  /\ \E np \in GetProxy(mpool) :
       /\ currentProxy' = np
       /\ clientProxy' = np
  /\ mrAttempt' = 1
  /\ mrPc' = "attempt"
  /\ UNCHANGED <<notMgr, proxyRows, mpool, hcVars, nManual, mrFailures, mrReports,
                 mrGets>>

\* The retry closure: client.Do(req) returns a response.
AttemptSucceeds ==
  /\ mrPc = "attempt"
  /\ mrPc' = "done"
  /\ UNCHANGED <<notMgr, proxyRows, mpool, hcVars, nManual, currentProxy,
                 clientProxy, mrAttempt, mrFailures, mrReports, mrGets>>

\* utils.Retry after a failed attempt: the next attempt, or the error once
\* MaxAttempts attempts were made.
RetryAfterFailure ==
  /\ mrFailures' = mrFailures + 1
  /\ IF mrAttempt < MaxRequestAttempts
       THEN mrAttempt' = mrAttempt + 1 /\ mrPc' = "attempt"
       ELSE mrAttempt' = mrAttempt /\ mrPc' = "failed"

\* The retry closure: client.Do(req) returns an error while currentProxy is
\* nil: return retryErr.
AttemptFailsNoProxy ==
  /\ mrPc = "attempt"
  /\ currentProxy = 0
  /\ RetryAfterFailure
  /\ UNCHANGED <<notMgr, proxyRows, mpool, hcVars, nManual, currentProxy,
                 clientProxy, mrReports, mrGets>>

\* The retry closure: client.Do(req) returns an error while currentProxy is
\* set: ReportProxyFailure(ctx, currentProxy) (UpdateProxyHealth(false);
\* LoadProxies); currentProxy, _ = GetProxy(); if currentProxy != nil
\* { client, _ = GetHTTPClient(ctx, currentProxy) }; return retryErr.
AttemptFailsWithProxy ==
  /\ mrPc = "attempt"
  /\ currentProxy # 0
  /\ proxyRows' = [proxyRows EXCEPT ![currentProxy] = UpdateProxyHealth(@, FALSE)]
  /\ mpool' = GetActiveProxies(proxyRows')
  /\ mrReports' = Append(mrReports, currentProxy)
  /\ mrGets' = mrGets + 1
  /\ \E np \in GetProxy(mpool') :
       /\ currentProxy' = np
       /\ clientProxy' = IF np # 0 THEN np ELSE clientProxy
  /\ RetryAfterFailure
  /\ UNCHANGED <<notMgr, hcVars, nManual>>

MgrNext ==
  \/ ManagerStart
  \/ HealthInitial
  \/ HealthTick
  \/ HealthExit
  \/ \E p \in Proxies, h \in BOOLEAN : HealthCheckOne(p, h)
  \/ \E p \in Proxies : HealthCheckError(p)
  \/ HealthReload
  \/ ManagerStop
  \/ \E p \in Proxies, h \in BOOLEAN : ManualTest(p, h)
  \/ MakeRequestBegin
  \/ AttemptSucceeds
  \/ AttemptFailsNoProxy
  \/ AttemptFailsWithProxy

\* ================================================= locks of the shared maps
\* ProxyPool (src/unnamed/part_005), CrawlerService.activeTasks and
\* EmbroideryAPICrawler.periodicMonitors at the granularity of their
\* sync.RWMutex: a goroutine takes the lock when it enters an operation and
\* the deferred or explicit Unlock runs when it leaves.
Threads == 1..NumThreads
Locks == {"pool", "tasks", "monitors"}

\* Everything outside the locks and the data they guard.
notLock ==
  <<upTotal, poolVars, crawlVars, monVars, svcVars, proxyVars, retryVars, payloadVars,
    limVars, mgrVars>>

\* What a goroutine gets when math/rand's unsynchronised source is used by two
\* goroutines at once and its indices run out of range.
Panicked == <<0 - 1>>

\* Lists of proxy ids the pool can hold, and those the store can return.
PoolLists == UNION {[1..n -> Proxies] : n \in 0..MaxPoolLen}
StoreLists == {l \in PoolLists : \A i, j \in 1..Len(l) : l[i] = l[j] => i = j}

\* NewProxyPool, NewCrawlerService, NewEmbroideryAPICrawler: empty list, free
\* locks.
LockIdle ==
  /\ tPc = [t \in Threads |-> "idle"]
  /\ tArg = [t \in Threads |-> 0]
  /\ tRes = [t \in Threads |-> <<>>]
  /\ rw = [l \in Locks |-> [w |-> 0, r |-> {}]]
  /\ proxies = <<>>
  /\ nLockOps = 0

\* sync.RWMutex.
CanLock(l) == rw[l].w = 0 /\ rw[l].r = {}
CanRLock(l) == rw[l].w = 0
Lock(l, t) == [rw EXCEPT ![l].w = t]
Unlock(l) == [rw EXCEPT ![l].w = 0]
RLock(l, t) == [rw EXCEPT ![l].r = @ \cup {t}]
RUnlock(l, t) == [rw EXCEPT ![l].r = @ \ {t}]

\* A goroutine starts an operation.
Enters(t, pc) ==
  /\ tPc[t] = "idle"
  /\ nLockOps < MaxLockOps
  /\ nLockOps' = nLockOps + 1
  /\ tPc' = [tPc EXCEPT ![t] = pc]

\* LoadProxies: p.mu.Lock() with a deferred Unlock, then the store query.
LoadProxies(t) ==
  /\ Enters(t, "lp_query")
  /\ CanLock("pool")
  /\ rw' = Lock("pool", t)
  /\ UNCHANGED <<tArg, tRes, proxies, notLock>>

\* GetActiveProxies fails: LoadProxies returns the error.
LoadQueryFails(t) ==
  /\ tPc[t] = "lp_query"
  /\ tPc' = [tPc EXCEPT ![t] = "idle"]
  /\ rw' = Unlock("pool")
  /\ UNCHANGED <<tArg, tRes, proxies, nLockOps, notLock>>

\* GetActiveProxies returns rows: p.proxies = proxies.
LoadQueryReturns(t, rows) ==
  /\ tPc[t] = "lp_query"
  /\ tPc' = [tPc EXCEPT ![t] = "lp_assign"]
  /\ proxies' = rows
  /\ UNCHANGED <<tArg, tRes, rw, nLockOps, notLock>>

LoadProxiesReturn(t) ==
  /\ tPc[t] = "lp_assign"
  /\ tPc' = [tPc EXCEPT ![t] = "idle"]
  /\ rw' = Unlock("pool")
  /\ UNCHANGED <<tArg, tRes, proxies, nLockOps, notLock>>

\* GetProxy: p.mu.RLock() with a deferred RUnlock, then len(p.proxies).
GetProxyEnter(t) ==
  /\ Enters(t, "gp_len")
  /\ CanRLock("pool")
  /\ rw' = RLock("pool", t)
  /\ UNCHANGED <<tArg, tRes, proxies, notLock>>

GetProxyEmpty(t) ==
  /\ tPc[t] = "gp_len"
  /\ proxies = <<>>
  /\ tPc' = [tPc EXCEPT ![t] = "idle"]
  /\ tRes' = [tRes EXCEPT ![t] = <<>>]
  /\ rw' = RUnlock("pool", t)
  /\ UNCHANGED <<tArg, proxies, nLockOps, notLock>>

\* p.rand.Intn(len(p.proxies)) advances the state of the random source.
GetProxyIntn(t) ==
  /\ tPc[t] = "gp_len"
  /\ proxies # <<>>
  /\ tPc' = [tPc EXCEPT ![t] = "gp_rand"]
  /\ UNCHANGED <<tArg, tRes, rw, proxies, nLockOps, notLock>>

GetProxyReturn(t, idx) ==
  /\ tPc[t] = "gp_rand"
  /\ idx \in 1..Len(proxies)
  /\ tPc' = [tPc EXCEPT ![t] = "idle"]
  /\ tRes' = [tRes EXCEPT ![t] = <<proxies[idx]>>]
  /\ rw' = RUnlock("pool", t)
  /\ UNCHANGED <<tArg, proxies, nLockOps, notLock>>

\* Two goroutines inside Intn on the same *rand.Rand: besides any index, the
\* source can fail with an index out of range.
GetProxyRacePanics(t) ==
  /\ tPc[t] = "gp_rand"
  /\ \E u \in Threads \ {t} : tPc[u] = "gp_rand"
  /\ tPc' = [tPc EXCEPT ![t] = "idle"]
  /\ tRes' = [tRes EXCEPT ![t] = Panicked]
  /\ rw' = RUnlock("pool", t)
  /\ UNCHANGED <<tArg, proxies, nLockOps, notLock>>

GetProxyByIndex(t, idx) ==
  /\ Enters(t, "gi_read")
  /\ CanRLock("pool")
  /\ rw' = RLock("pool", t)
  /\ tArg' = [tArg EXCEPT ![t] = idx]
  /\ UNCHANGED <<tRes, proxies, notLock>>

\* Indices are 0-based in the source.
GetProxyByIndexReturn(t) ==
  /\ tPc[t] = "gi_read"
  /\ tPc' = [tPc EXCEPT ![t] = "idle"]
  /\ tRes' = [tRes EXCEPT ![t] =
       IF tArg[t] < 0 \/ tArg[t] >= Len(proxies) THEN <<>> ELSE <<proxies[tArg[t] + 1]>>]
  /\ rw' = RUnlock("pool", t)
  /\ UNCHANGED <<tArg, proxies, nLockOps, notLock>>

GetAllProxies(t) ==
  /\ Enters(t, "ga_copy")
  /\ CanRLock("pool")
  /\ rw' = RLock("pool", t)
  /\ UNCHANGED <<tArg, tRes, proxies, notLock>>

GetAllProxiesReturn(t) ==
  /\ tPc[t] = "ga_copy"
  /\ tPc' = [tPc EXCEPT ![t] = "idle"]
  /\ tRes' = [tRes EXCEPT ![t] = proxies]
  /\ rw' = RUnlock("pool", t)
  /\ UNCHANGED <<tArg, proxies, nLockOps, notLock>>

AddProxy(t, p) ==
  /\ Enters(t, "ap_append")
  /\ Len(proxies) < MaxPoolLen
  /\ CanLock("pool")
  /\ rw' = Lock("pool", t)
  /\ tArg' = [tArg EXCEPT ![t] = p]
  /\ UNCHANGED <<tRes, proxies, notLock>>

AddProxyReturn(t) ==
  /\ tPc[t] = "ap_append"
  /\ tPc' = [tPc EXCEPT ![t] = "idle"]
  /\ proxies' = Append(proxies, tArg[t])
  /\ rw' = Unlock("pool")
  /\ UNCHANGED <<tArg, tRes, nLockOps, notLock>>

RemoveProxy(t, id) ==
  /\ Enters(t, "rp_remove")
  /\ CanLock("pool")
  /\ rw' = Lock("pool", t)
  /\ tArg' = [tArg EXCEPT ![t] = id]
  /\ UNCHANGED <<tRes, proxies, notLock>>

\* The list without its first entry whose ID is id.
RemoveFirst(l, id) ==
  IF \E i \in 1..Len(l) : l[i] = id
    THEN LET k == CHOOSE i \in 1..Len(l) : l[i] = id /\ \A j \in 1..(i - 1) : l[j] # id
         IN  SubSeq(l, 1, k - 1) \o SubSeq(l, k + 1, Len(l))
    ELSE l

RemoveProxyReturn(t) ==
  /\ tPc[t] = "rp_remove"
  /\ tPc' = [tPc EXCEPT ![t] = "idle"]
  /\ proxies' = RemoveFirst(proxies, tArg[t])
  /\ rw' = Unlock("pool")
  /\ UNCHANGED <<tArg, tRes, nLockOps, notLock>>

\* StartTask: GetTask and UpdateTaskStatus before any lock is taken.
StartTaskStore(t) ==
  /\ Enters(t, "st_store")
  /\ UNCHANGED <<tArg, tRes, rw, proxies, notLock>>

\* cs.mu.Lock(); cs.activeTasks[taskID] = cancel
StartTaskRegister(t) ==
  /\ tPc[t] = "st_store"
  /\ CanLock("tasks")
  /\ tPc' = [tPc EXCEPT ![t] = "st_register"]
  /\ rw' = Lock("tasks", t)
  /\ UNCHANGED <<tArg, tRes, proxies, nLockOps, notLock>>

\* cs.mu.Unlock()
StartTaskRegistered(t) ==
  /\ tPc[t] = "st_register"
  /\ tPc' = [tPc EXCEPT ![t] = "idle"]
  /\ rw' = Unlock("tasks")
  /\ UNCHANGED <<tArg, tRes, proxies, nLockOps, notLock>>

\* StopTask: the handle is read under cs.mu.
StopTaskLookup(t) ==
  /\ Enters(t, "sp_lookup")
  /\ CanLock("tasks")
  /\ rw' = Lock("tasks", t)
  /\ UNCHANGED <<tArg, tRes, proxies, notLock>>

\* cs.mu.Unlock(), cancel(), then StopPeriodicMonitoring takes eac.mu.
StopTaskMonitors(t) ==
  /\ tPc[t] = "sp_lookup"
  /\ CanLock("monitors")
  /\ tPc' = [tPc EXCEPT ![t] = "sp_monitors"]
  /\ rw' = [rw EXCEPT !["tasks"].w = 0, !["monitors"].w = t]
  /\ UNCHANGED <<tArg, tRes, proxies, nLockOps, notLock>>

\* StopPeriodicMonitoring returns; UpdateTaskStatus(stopped) begins.
StopTaskStore(t) ==
  /\ tPc[t] = "sp_monitors"
  /\ tPc' = [tPc EXCEPT ![t] = "sp_store"]
  /\ rw' = Unlock("monitors")
  /\ UNCHANGED <<tArg, tRes, proxies, nLockOps, notLock>>

StopTaskReturn(t) ==
  /\ tPc[t] = "sp_store"
  /\ tPc' = [tPc EXCEPT ![t] = "idle"]
  /\ UNCHANGED <<tArg, tRes, rw, proxies, nLockOps, notLock>>

\* StartPeriodicMonitoring: the registry is tested and written under eac.mu.
MonitorRegister(t) ==
  /\ Enters(t, "mon_register")
  /\ CanLock("monitors")
  /\ rw' = Lock("monitors", t)
  /\ UNCHANGED <<tArg, tRes, proxies, notLock>>

MonitorRegistered(t) ==
  /\ tPc[t] = "mon_register"
  /\ tPc' = [tPc EXCEPT ![t] = "idle"]
  /\ rw' = Unlock("monitors")
  /\ UNCHANGED <<tArg, tRes, proxies, nLockOps, notLock>>

LockNext ==
  \/ \E t \in Threads : LoadProxies(t)
  \/ \E t \in Threads : LoadQueryFails(t)
  \/ \E t \in Threads, rows \in StoreLists : LoadQueryReturns(t, rows)
  \/ \E t \in Threads : LoadProxiesReturn(t)
  \/ \E t \in Threads : GetProxyEnter(t)
  \/ \E t \in Threads : GetProxyEmpty(t)
  \/ \E t \in Threads : GetProxyIntn(t)
  \/ \E t \in Threads, idx \in 1..MaxPoolLen : GetProxyReturn(t, idx)
  \/ \E t \in Threads : GetProxyRacePanics(t)
  \/ \E t \in Threads, idx \in 0..MaxPoolLen : GetProxyByIndex(t, idx)
  \/ \E t \in Threads : GetProxyByIndexReturn(t)
  \/ \E t \in Threads : GetAllProxies(t)
  \/ \E t \in Threads : GetAllProxiesReturn(t)
  \/ \E t \in Threads, p \in Proxies : AddProxy(t, p)
  \/ \E t \in Threads : AddProxyReturn(t)
  \/ \E t \in Threads, id \in Proxies : RemoveProxy(t, id)
  \/ \E t \in Threads : RemoveProxyReturn(t)
  \/ \E t \in Threads : StartTaskStore(t)
  \/ \E t \in Threads : StartTaskRegister(t)
  \/ \E t \in Threads : StartTaskRegistered(t)
  \/ \E t \in Threads : StopTaskLookup(t)
  \/ \E t \in Threads : StopTaskMonitors(t)
  \/ \E t \in Threads : StopTaskStore(t)
  \/ \E t \in Threads : StopTaskReturn(t)
  \/ \E t \in Threads : MonitorRegister(t)
  \/ \E t \in Threads : MonitorRegistered(t)

\* The library components at rest.
LibIdle == ProxyInit /\ RetryIdle /\ PayloadIdle /\ LimInit /\ MgrIdle /\ LockIdle

\* ========================================================== specifications
\* The worker pool alone.
InitPool == upTotal = 0 /\ PoolInit /\ CrawlIdle /\ MonInit /\ SvcIdle /\ LibIdle
SpecPool == InitPool /\ [][PoolNext]_vars

\* One CrawlAll invocation, its cursor writes and its cancellation.
InitCrawl == PoolInit /\ CrawlInit /\ MonInit /\ SvcIdle /\ LibIdle
SpecCrawl == InitCrawl /\ [][CrawlNext]_vars

\* One CrawlAll invocation against an upstream whose total changes.
DriftNext == CrawlNext \/ UpstreamChanges
SpecDrift == InitCrawl /\ [][DriftNext]_vars

\* The monitor registry.
InitMon == upTotal = 0 /\ PoolInit /\ CrawlIdle /\ MonInit /\ SvcIdle /\ LibIdle
SpecMon == InitMon /\ [][MonNext]_vars

\* One monitor and its incremental runs.
InitTick == upTotal \in 0..MaxTotal /\ PoolInit /\ CrawlIdle /\ MonInit /\ SvcIdle /\ LibIdle
SpecTick == InitTick /\ [][TickNext]_vars

\* The service: API calls, executions and the monitors they start.
InitSvc == upTotal = 0 /\ PoolInit /\ CrawlIdle /\ MonInit /\ SvcInit /\ LibIdle
SpecSvc == InitSvc /\ [][SvcNext]_vars

\* The proxies table under health checks, failure reports and manual tests.
InitProxy ==
  upTotal = 0 /\ PoolInit /\ CrawlIdle /\ MonInit /\ SvcIdle /\ ProxyInit /\ RetryIdle
  /\ PayloadIdle /\ LimInit /\ MgrIdle /\ LockIdle
SpecProxy == InitProxy /\ [][ProxyNext]_vars

\* One Retry call, its operation's outcomes and the caller's cancellation.
InitRetry ==
  upTotal = 0 /\ PoolInit /\ CrawlIdle /\ MonInit /\ SvcIdle /\ ProxyInit /\ RetryInit
  /\ PayloadIdle /\ LimInit /\ MgrIdle /\ LockIdle
SpecRetry == InitRetry /\ [][RetryNext]_vars

\* One BuildEmbroideryPayload call.
InitPayload ==
  upTotal = 0 /\ PoolInit /\ CrawlIdle /\ MonInit /\ SvcIdle /\ ProxyInit /\ RetryIdle
  /\ PayloadInit /\ LimInit /\ MgrIdle /\ LockIdle
SpecPayload == InitPayload /\ [][PayloadNext]_vars

\* One DomainRateLimiter, its callers and the passing of time.
InitLim == upTotal = 0 /\ PoolInit /\ CrawlIdle /\ MonInit /\ SvcIdle /\ LibIdle
SpecLim == InitLim /\ [][LimNext]_vars

\* One proxy.Manager with its health routine, one makeRequest call and the
\* manual proxy test.
InitMgr ==
  upTotal = 0 /\ PoolInit /\ CrawlIdle /\ MonInit /\ SvcIdle /\ StoreInit /\ RetryIdle
  /\ PayloadIdle /\ LimInit /\ MgrIdle /\ LockIdle
SpecMgr == InitMgr /\ [][MgrNext]_vars

\* Goroutines on the proxy pool, the active-task map and the monitor map.
InitLock == upTotal = 0 /\ PoolInit /\ CrawlIdle /\ MonInit /\ SvcIdle /\ LibIdle
SpecLock == InitLock /\ [][LockNext]_vars

\* ================================================================== claims
\* ---------------------------------------------------------------- SpecPool
\* C9: WorkerPool.Stop returns only after every worker that was inside
\* crawl() when Stop was called has left crawl() and exited, and from Stop's
\* first step on the context those crawl() calls run with is cancelled.
C9_StopWaitsForInFlight ==
  /\ stopPc = "done" => \A w \in inFlightAtStop : wpc[w].pc = "exited"
  /\ stopPc # "idle" => wpCancelled

\* C9 witness: Stop has returned and some worker was inside crawl() when it
\* was called.
C9_Witness == stopPc = "done" /\ inFlightAtStop # {}

\* C10: a task submitted after Stop was called is never enqueued and never
\* executed, and its Submit call does not panic.
C10_NoLateSubmitRuns ==
  \A s \in SubmitIds :
    submits[s].afterStop =>
      /\ submits[s].pc \notin {"sent", "panicked"}
      /\ s \notin executed

\* --------------------------------------------------------------- SpecCrawl
\* The offsets f, f+P, f+2P, ... below total.
RECURSIVE Offsets(_, _)
Offsets(f, total) ==
  IF f >= total THEN <<>> ELSE <<f>> \o Offsets(f + PageSize, total)

\* CrawlAll returned nil after a run without request failure, malformed
\* response or cancellation, started from a stored cursor.
CleanResumedRun ==
  /\ cpc = "returned"
  /\ result = "nil"
  /\ errorCount = 0
  /\ ~crawlCancelled
  /\ initFrom # NoCursor

\* C4 as stated: a resumed run requests exactly the offsets f, f+P, ... below
\* T, in order, and ends with totalProcessed = T.
C4_ResumeOffsetsBelowTotal ==
  CleanResumedRun =>
    /\ requests = Offsets(initFrom, upTotal)
    /\ totalProcessed = upTotal

\* C4 amended: a resumed run requests offset f first, whatever T is, then
\* f+P, f+2P, ... below T, in order, and ends with totalProcessed = max(T, f).
C4_ResumeOffsets ==
  CleanResumedRun =>
    /\ requests = <<initFrom>> \o Offsets(initFrom + PageSize, upTotal)
    /\ totalProcessed = Max(upTotal, initFrom)

\* C4 witness: a run resumed past the first page that took two requests and
\* counted every record of the upstream.
C4_Witness ==
  /\ CleanResumedRun
  /\ initFrom >= PageSize
  /\ Len(requests) = 2
  /\ totalProcessed = upTotal

\* C5: while the page request for offset from is in flight, the stored
\* last_from equals from.
C5_CursorStoredBeforeRequest == cpc = "request" => storedFrom = from

\* C6: after CrawlAll returned nil, uncancelled, and every cursor write it
\* started has been executed, the stored configuration holds no last_from.
C6_CursorClearedOnCompletion ==
  (cpc = "returned" /\ result = "nil" /\ ~crawlCancelled /\ pendingWrites = {})
    => storedFrom = NoCursor

\* C23: within one CrawlAll invocation from never decreases, and the pages
\* are processed in strictly increasing from order: no offset is processed
\* twice and none after a larger one.
C23_PagesInIncreasingOrder ==
  /\ [](\A i, j \in 1..Len(processedAt) :
          i < j => processedAt[i] < processedAt[j])
  /\ [][from' >= from]_vars

\* C23 witness: a run that processed two pages and had to repeat a request
\* in between.
C23_Witness ==
  /\ cpc = "returned"
  /\ Len(processedAt) >= 2
  /\ Len(requests) > Len(processedAt)
  /\ errorCount > 0

\* C24: a failed request or a malformed response is counted and never ends
\* the run; the next iteration of the loop starts only after the fixed delay
\* that follows the error.
C24_ErrorsDelayedNotFatal ==
  [][(cpc = "request" /\ errorCount' = errorCount + 1) =>
       /\ statErrors' = statErrors + 1
       /\ cpc' = "errsleep"]_vars

\* ceil(a / b) for b > 0.
CeilDiv(a, b) == 0 - ((0 - a) \div b)

\* The offset the invocation starts at.
StartOffset == IF initFrom = NoCursor THEN 0 ELSE initFrom

\* No request of the invocation failed, no response was malformed and ctx
\* was not cancelled.
CleanRun == cpc \notin {"idle", "start"} /\ errorCount = 0 /\ ~crawlCancelled

\* The loop is left exactly on an empty page, on totalProcessed >=
\* totalAvailable, or on a page shorter than the page size.
StopsExactly ==
  /\ cpc = "finish" =>
        \/ resp.hits = 0
        \/ totalProcessed >= totalAvailable
        \/ resp.hits < PageSize
  /\ cpc \in {"limwait", "limsleep", "wait"} =>
        /\ resp.hits = PageSize
        /\ totalProcessed < totalAvailable

\* C25 as stated: against an upstream that answers every request and holds
\* T records, a crawl starting at offset f issues at most
\* ceil((T - f) / P) + 1 page requests, and the loop stops exactly on the
\* three conditions.
C25_TerminationBoundAsStated ==
  /\ CleanRun => Len(requests) <= CeilDiv(upTotal - StartOffset, PageSize) + 1
  /\ StopsExactly

\* C25 amended: the bound is max(ceil((T - f) / P), 0) + 1; a crawl starting
\* at or past T issues one request.
C25_TerminationBound ==
  /\ CleanRun =>
        Len(requests) <= Max(CeilDiv(upTotal - StartOffset, PageSize), 0) + 1
  /\ (CleanRun /\ StartOffset >= upTotal /\ cpc = "returned") =>
        Len(requests) = 1
  /\ StopsExactly

\* C25 witness: a clean run over three pages, the last one short, has
\* returned.
C25_Witness ==
  /\ CleanRun
  /\ cpc = "returned"
  /\ Len(requests) = 3
  /\ resp.hits < PageSize
  /\ totalProcessed = upTotal

\* CrawlAll leaves a wait of the loop because ctx is done.
LeavesOnCancel == WaitCancelled \/ LimiterWaitFails

\* C26: at every wait of the page loop (the delay after a failed request,
\* the rate-limiter wait, the random delay between pages) a cancelled ctx
\* lets CrawlAll leave the wait without waiting it out.
C26_WaitsObserveCancellation ==
  (crawlCancelled /\ cpc \in {"errsleep", "limwait", "wait"}) =>
    ENABLED LeavesOnCancel

\* C30: stats.Errors never holds more entries than the cap of the error
\* log, whatever mix of request failures, parse errors and save failures
\* the run meets.
C30_ErrorLogCapped == statErrors <= ErrorLogCap

\* --------------------------------------------------------------- SpecDrift
\* The first parsed response of the invocation is being handled.
FirstParsedPage == cpc = "process" /\ processedAt = <<>>

\* C31: totalAvailable takes the total reported by the first parsed page of
\* the run, 0 included, when that page is handled, and changes at no other
\* step, whatever totals later pages report.
C31_TotalLearnedOnce ==
  [][IF FirstParsedPage /\ cpc' # cpc
       THEN totalAvailable' = resp.total
       ELSE totalAvailable' = totalAvailable]_vars

\* C31 witness: a later page reported another total than the one learned.
C31_Witness ==
  /\ Len(processedAt) >= 2
  /\ cpc \in {"limwait", "finish"}
  /\ resp.total # totalAvailable

\* ---------------------------------------------------------------- SpecTick
\* C7: an incremental run starts at the monitor's last known total, is
\* launched only on growth beyond it, ends having fetched exactly the records
\* beyond it, and no run is launched by a tick that sees a total an earlier
\* run of the monitor has already fetched.
C7_MonitorFetchesGrowthOnce ==
  \A r \in 1..Len(runs) :
    /\ runs[r].from0 = mons[runs[r].mon].lastTotal
    /\ runs[r].seen > runs[r].from0
    /\ runs[r].pc = "done" => runs[r].from0 + runs[r].totalProcessed = runs[r].last
    /\ ~runs[r].redundant

\* ----------------------------------------------------------------- SpecMon
\* The monitors of task t that are running with a context not cancelled.
RunningMonitors(t) ==
  {m \in 1..Len(mons) :
     mons[m].task = t /\ mons[m].pc # "exited" /\ ~MonCancelled(m)}

\* C8: at most one monitor of a task is running at any time.
C8_AtMostOneMonitor == \A t \in Tasks : Cardinality(RunningMonitors(t)) <= 1

\* ----------------------------------------------------------------- SpecSvc
\* The executions of task t that are inside the crawl.
Crawling(t) == {e \in 1..Len(execs) : execs[e].task = t /\ execs[e].pc = "crawl"}

\* C1: at most one execution of a task is live at any time.
C1_AtMostOneExecution == \A t \in Tasks : Cardinality(Crawling(t)) <= 1

\* C2: once a stop call has returned, every execution of the task that was
\* live when it was called has ended or has a cancelled context, and every
\* monitor of the task that was running or being started then has ended or
\* has a cancelled context.
C2_StopCancelsEverything ==
  \A c \in 1..Len(calls) :
    (calls[c].op = "stop" /\ calls[c].pc = "done") =>
      /\ \A e \in calls[c].liveExecs : execs[e].pc = "done" \/ execs[e].cancelled
      /\ \A s \in monStarts :
           s.id \in calls[c].liveStarts => ExecCancelled(s.parent)
      /\ \A m \in 1..Len(mons) :
           mons[m].start \in calls[c].liveStarts =>
             mons[m].pc = "exited" \/ MonCancelled(m)

\* C3: a task started once and then stopped, whose crawl returned the
\* cancellation and whose goroutine has ended, has status stopped and stopped
\* as its last status notification.
C3_CancellationIsNotFailure ==
  \A c \in 1..Len(calls) :
    ( /\ calls[c].op = "stop"
      /\ calls[c].pc = "done"
      /\ calls[c].handle # 0
      /\ Len(execs) = 1
      /\ execs[1].err = "cancelled"
      /\ execs[1].pc = "done"
      /\ \A d \in 1..Len(calls) : calls[d].pc \in {"done", "rejected"} )
    => /\ status[calls[c].task] = TaskStatusStopped
       /\ notifs[calls[c].task][Len(notifs[calls[c].task])] = TaskStatusStopped

\* A start or resume call of task t is made in this step.
StartCalled(t) ==
  /\ Len(calls') = Len(calls) + 1
  /\ calls'[Len(calls')].op \in {"start", "resume"}
  /\ calls'[Len(calls')].task = t

\* C19: a start of a task whose status is running fails with "task is
\* already running" and changes nothing: the status stays running, no
\* execution is spawned, the cancellation handle is neither added nor
\* replaced, no notification is emitted, and the failed call does nothing
\* afterwards.
C19_StartRejectedWhenRunning ==
  [][/\ \A t \in Tasks :
          (StartCalled(t) /\ status[t] = TaskStatusRunning) =>
            /\ calls'[Len(calls')].pc = "rejected"
            /\ status' = status
            /\ execs' = execs
            /\ activeTasks' = activeTasks
            /\ notifs' = notifs
      /\ \A c \in 1..Len(calls) :
          calls[c].pc = "rejected" => calls'[c] = calls[c]]_vars

\* C19 witness: a start found the task running and was rejected, while the
\* execution of the earlier start goes on.
C19_Witness ==
  \E c \in 1..Len(calls) :
    /\ calls[c].pc = "rejected"
    /\ status[calls[c].task] = TaskStatusRunning
    /\ LiveExecs(calls[c].task) # {}

\* C20: when the crawl of an execution has returned, the statement that
\* records the outcome leaves the task completed for a nil result and failed
\* for an error, a cancellation included.
C20_OutcomeTransitions ==
  [][\A e \in 1..Len(execs) :
       (execs[e].pc = "write" /\ execs'[e].pc = "broadcast") =>
         status'[execs[e].task] = OutcomeStatus(execs[e].err)]_vars

\* Task t is quiet: none of its calls and none of its executions is under
\* way.
Quiet(t) ==
  /\ \A c \in 1..Len(calls) :
       calls[c].task = t => calls[c].pc \in {"done", "rejected"}
  /\ LiveExecs(t) = {}

\* C21: every status transition of a task emits a task_status notification
\* of the new status, so the statuses notified are the statuses taken: once
\* the task is quiet, a task never notified is still pending, and otherwise
\* the last status notified is the status the task has.
C21_NotifiedEqualsTaken ==
  \A t \in Tasks :
    Quiet(t) =>
      IF notifs[t] = <<>>
        THEN status[t] = TaskStatusPending
        ELSE notifs[t][Len(notifs[t])] = status[t]

\* A pause call of task t is made in this step.
PauseCalled(t) ==
  /\ Len(calls') = Len(calls) + 1
  /\ calls'[Len(calls')].op = "pause"
  /\ calls'[Len(calls')].task = t

\* C22: pause only records the paused status: it cancels no execution
\* context and leaves cs.activeTasks, the monitors and their map, and the
\* running crawl as they were.
C22_PauseOnlyRecordsStatus ==
  [][\A t \in Tasks :
       PauseCalled(t) =>
         /\ status' = [status EXCEPT ![t] = TaskStatusPaused]
         /\ execs' = execs
         /\ activeTasks' = activeTasks
         /\ UNCHANGED <<monVars, crawlVars, poolVars, notifs>>
         /\ calls'[Len(calls')].pc = "done"]_vars

\* C22 witness: a task was paused while its execution was crawling; the
\* execution is still crawling, uncancelled, with its handle registered.
C22_Witness ==
  \E c \in 1..Len(calls) : \E e \in 1..Len(execs) :
    /\ calls[c].op = "pause"
    /\ status[calls[c].task] = TaskStatusPaused
    /\ execs[e].task = calls[c].task
    /\ execs[e].pc = "crawl"
    /\ ~execs[e].cancelled
    /\ activeTasks[calls[c].task] = e

\* The worker goroutines of the pool that have not returned.
LiveWorkers == {w \in 1..Len(wpc) : wpc[w].pc # "exited"}

\* C29: whatever tasks were started, the pool never has more live worker
\* goroutines than its configured worker count, and its job queue never
\* holds more than twice that many tasks.
C29_FixedSizePool ==
  /\ Cardinality(LiveWorkers) <= Workers
  /\ Len(jobChan) <= 2 * Workers

\* --------------------------------------------------------------- SpecProxy
\* C11: a proxy's failure counter equals the number of consecutive failures
\* since its last success, and the proxy is inactive exactly when the counter
\* has reached MaxFailures.
C11_ProxyFailureAccounting ==
  \A p \in Proxies :
    /\ proxyRows[p].failureCount = consecFailures[p]
    /\ proxyRows[p].isActive <=> proxyRows[p].failureCount < MaxFailures

\* --------------------------------------------------------------- SpecRetry
\* Retry has returned and ctx was never cancelled.
ReturnedUncancelled == rpc = "returned" /\ ~rCancelled

\* Every invocation of fn so far failed.
AllFailed == invocations = lastErr

\* The last invocation of fn succeeded and every earlier one failed.
SucceededAtLast == rResult = "nil" /\ invocations = lastErr + 1

\* C12: without cancellation, an operation that first succeeds at invocation
\* k <= maxAttempts is invoked exactly k times and Retry returns nil; an
\* operation that always fails is invoked exactly maxAttempts times and Retry
\* returns the error of the last invocation.
C12_RetryAttempts ==
  ReturnedUncancelled =>
    \/ SucceededAtLast /\ invocations <= rcfg.maxAttempts
    \/ /\ AllFailed
       /\ invocations = rcfg.maxAttempts
       /\ rcfg.maxAttempts >= 1 => rResult = <<"err", rcfg.maxAttempts>>

\* C12 witness: an operation that failed at every one of three or more
\* attempts, and Retry returned the last error.
C12_Witness ==
  /\ ReturnedUncancelled
  /\ AllFailed
  /\ invocations >= 3
  /\ rResult = <<"err", invocations>>

\* C13: once ctx is cancelled while Retry is before an attempt or in a
\* backoff, fn is not invoked again, Retry returns the cancellation error, and
\* in a backoff it can return without the timer firing.
C13_RetryHonoursCancellation ==
  cancelledAt \in {"loop", "backoff"} =>
    /\ invocations = invAtCancel
    /\ rpc = "returned" => rResult = "cancelled"
    /\ rpc = "backoff" => ENABLED BackoffCancelled

\* C13 witness: cancelled during a backoff, Retry returned the cancellation
\* error although the timer never fired.
C13_Witness ==
  /\ rpc = "returned"
  /\ cancelledAt = "backoff"
  /\ rResult = "cancelled"
  /\ ~timerFired

\* C14 as stated: the delay slept before attempt n >= 2 is
\* min(initialDelay * multiplier^(n-1), maxDelay).
C14_DelayBeforeAttemptAsStated ==
  \A n \in 2..(Len(delays) + 1) :
    delays[n - 1] = Min(rcfg.initialDelay * Pow(rcfg.multiplier, n - 1), rcfg.maxDelay)

\* C14 amended: every attempt n >= 2 is preceded by a backoff, and the delay
\* slept before attempt n is min(initialDelay * multiplier^(n-2), maxDelay).
C14_DelayBeforeAttempt ==
  /\ invocations >= 1 => Len(delays) \in {invocations - 1, invocations}
  /\ \A n \in 2..(Len(delays) + 1) :
       delays[n - 1] =
         Min(rcfg.initialDelay * Pow(rcfg.multiplier, n - 2), rcfg.maxDelay)

\* C14 witness: the third attempt was made after a delay capped at maxDelay.
C14_Witness ==
  /\ invocations >= 3
  /\ delays[2] = rcfg.maxDelay
  /\ rcfg.initialDelay * rcfg.multiplier > rcfg.maxDelay

\* C15: the delay after the k-th failed attempt is
\* min(initialDelay * multiplier^(k-1), maxDelay), no delay follows the last
\* attempt, and maxAttempts = 4, multiplier = 2, initialDelay = 1 s,
\* maxDelay = 30 s gives the delays 1 s, 2 s, 4 s.
C15_BackoffSequence ==
  /\ \A k \in 1..Len(delays) :
       /\ k < rcfg.maxAttempts
       /\ delays[k] =
            Min(rcfg.initialDelay * Pow(rcfg.multiplier, k - 1), rcfg.maxDelay)
  /\ (ReturnedUncancelled /\ AllFailed /\ rcfg.maxAttempts >= 1) =>
       Len(delays) = rcfg.maxAttempts - 1
  /\ ( /\ ReturnedUncancelled
       /\ AllFailed
       /\ rcfg = [maxAttempts |-> 4, multiplier |-> 2, initialDelay |-> 1,
                  maxDelay |-> 30] )
     => delays = <<1, 2, 4>>

\* C15 witness: the always-failing run of the example has returned.
C15_Witness ==
  /\ ReturnedUncancelled
  /\ AllFailed
  /\ rcfg = [maxAttempts |-> 4, multiplier |-> 2, initialDelay |-> 1,
             maxDelay |-> 30]

\* ------------------------------------------------------------- SpecPayload
\* C16: the payload BuildEmbroideryPayload returns has the caller's from and
\* size at top level, whatever the overrides hold.
C16_PagingOwnedByCaller ==
  payPc = "returned" =>
    /\ payload["from"] = Scalar(payFrom)
    /\ payload["size"] = Scalar(paySize)

\* C16 witness: a payload returned for overrides that replace from with an
\* object and set size.
C16_Witness ==
  /\ payPc = "returned"
  /\ "from" \in DOMAIN payOverrides
  /\ "size" \in DOMAIN payOverrides
  /\ payOverrides["from"].kind = "imap"

\* C17: the merged payload is the recursive deep merge of the overrides into
\* the template: where both values are objects they are merged, otherwise the
\* override value replaces the template value, and keys the overrides do not
\* name keep the template's value.
C17_DeepMerge ==
  payPc = "merged" =>
    payload = mergeAnyMaps(defaultEmbroideryPayload(payFrom, paySize), payOverrides)

\* ----------------------------------------------------------------- SpecMgr
\* C27: every attempt of a page request that fails at the transport while
\* the client is routed through a proxy reports the failure of that proxy
\* and tries to acquire a replacement before the next attempt, also after an
\* earlier try found the pool empty.
C27_ProxySwapOnEveryFailure ==
  [][(mrFailures' = mrFailures + 1 /\ clientProxy # 0) =>
       /\ mrReports' = Append(mrReports, clientProxy)
       /\ mrGets' = mrGets + 1]_vars

\* C28: once the manager has started, a health cycle has run immediately and
\* one more for every tick, and every cycle, whatever the pool held, has
\* checked each proxy of its snapshot and then reloaded the pool.
C28_HealthCycleReloads ==
  hcPc \in {"select", "exited"} =>
    /\ hcCycles = 1 + hcTicks
    /\ hcChecked = hcSnapshot
    /\ hcReloads = hcCycles

\* ----------------------------------------------------------------- SpecLim
\* The WaitForDomain calls that returned nil.
Admitted == {c \in 1..Len(waits) : waits[c].pc = "admitted"}

\* The calls that are past the wait on bucket b.
Through(b) ==
  {c \in 1..Len(waits) :
     \/ b = 1 /\ waits[c].pc \in {"domain", "admitted"}
     \/ b # 1 /\ waits[c].saw = b /\ waits[c].pc = "admitted"}

\* C18: every admitted call took one token of the global bucket and one of
\* the bucket registered for its domain when it looked; the N requests a
\* limiter of R requests/sec has admitted by time t satisfy
\* t >= (N - burst) / R, that is N <= burst + R * t.
C18_RateLimiterBudgets ==
  /\ \A b \in 1..Len(buckets) :
       /\ Cardinality(Through(b)) <= buckets[b].taken
       /\ buckets[b].taken <=
            Burst(buckets[b].perTick) + buckets[b].perTick * (lnow - buckets[b].born)
  /\ Cardinality(Admitted) <= Burst(GlobalPerTick) + GlobalPerTick * lnow

\* C18 witness: with the global burst spent, a call of a domain with a
\* registered limiter is admitted after a tick.
C18_Witness ==
  /\ lnow >= 1
  /\ buckets[1].taken > Burst(GlobalPerTick)
  /\ \E c \in Admitted : waits[c].saw # 0

\* ---------------------------------------------------------------- SpecLock
\* The goroutine is inside a store or network call, or asleep.
InIO(t) == tPc[t] \in {"lp_query", "st_store", "sp_store"}

\* The locks the goroutine holds, for writing or for reading.
Holds(t) == {l \in Locks : rw[l].w = t \/ t \in rw[l].r}

\* C32: a goroutine inside network or store I/O, or asleep, holds none of the
\* locks of the proxy pool, the active-task map and the monitor map.
C32_NoLockAcrossIO == \A t \in Threads : InIO(t) => Holds(t) = {}

\* What the goroutine is doing to the pool's shared state.
ModifiesList(t) == tPc[t] \in {"lp_assign", "ap_append", "rp_remove"}
ReadsList(t) == tPc[t] \in {"gp_len", "gp_rand", "gi_read", "ga_copy"}
ModifiesRand(t) == tPc[t] = "gp_rand"

\* C33: no two pool operations access the proxy list or the random source
\* at the same time when at least one of them modifies it.
C33_PoolThreadSafe ==
  \A t, u \in Threads :
    t # u =>
      /\ ~(ModifiesList(t) /\ (ModifiesList(u) \/ ReadsList(u)))
      /\ ~(ModifiesRand(t) /\ ModifiesRand(u))

\* ------------------------------------------------ SpecSvc: cancel handles
\* C34: whenever an execution of a task is live, cs.activeTasks holds that
\* execution's own cancel under the task id.
C34_LiveExecutionHoldsHandle ==
  \A t \in Tasks : \A e \in LiveExecs(t) : activeTasks[t] = e

\* The deferred delete of a cancelled execution removes only its own handle.
CleanupRemovesOwnHandle ==
  [][\A e \in 1..Len(execs) :
       (execs[e].pc = "defer" /\ execs'[e].pc = "done" /\ execs[e].cancelled
        /\ activeTasks[execs[e].task] # e)
         => activeTasks'[execs[e].task] = activeTasks[execs[e].task]]_vars

\* A start, a completed stop of that execution, and a second start whose
\* handle the first execution's deferred delete has removed.
RestartLosesHandle ==
  \E t \in Tasks :
    /\ Len(calls) = 3 /\ Len(execs) = 2
    /\ \A c \in 1..3 : calls[c].task = t /\ calls[c].pc = "done"
    /\ calls[1].op = "start" /\ calls[2].op = "stop" /\ calls[3].op = "start"
    /\ calls[2].handle = 1
    /\ execs[1].cancelled /\ execs[1].pc = "done"
    /\ execs[2].pc = "crawl" /\ ~execs[2].cancelled
    /\ activeTasks[t] = 0

\* ------------------------------------- SpecCrawl: cancellation and cursor
\* C35: a CrawlAll whose ctx was done before every record of every fetched
\* page was handed to persistence does not return nil.
C35_CancelledRunNeverNil == result = "nil" => skippedRecords = 0

\* The offset of the first page of the invocation whose records have not all
\* been processed: pages are processed in order from the start offset, and a
\* page whose batch save was cut short by ctx is the last one handed over.
FirstUnprocessed ==
  IF processedAt = <<>>
    THEN StartOffset
    ELSE IF skippedRecords > 0
           THEN processedAt[Len(processedAt)]
           ELSE processedAt[Len(processedAt)] + PageSize

\* C36: the stored resume cursor, when present, is at most the offset of the
\* first page whose records have not all been processed, in whatever order
\* the cursor writes land.
C36_CursorNeverSkipsRecords ==
  storedFrom # NoCursor => storedFrom <= FirstUnprocessed

\* A write of an earlier page landed after later pages were processed, and a
\* run was cut short while a later write was still to land.
C36_Witness ==
  /\ Len(processedAt) >= 2
  /\ storedFrom # NoCursor
  /\ storedFrom < processedAt[Len(processedAt)]
  /\ \E w \in pendingWrites : w.from > storedFrom

\* Every request but the first asks for the offset of the request before it
\* (a repeat) or for the next page, the latter only when the page before was
\* handed to the batch save; repeats happen only after counted errors.
RequestsFollowPages ==
  /\ \A i \in 1..(Len(requests) - 1) :
       \/ requests[i + 1] = requests[i]
       \/ /\ requests[i + 1] = requests[i] + PageSize
          /\ \E k \in 1..Len(processedAt) : processedAt[k] = requests[i]
  /\ Cardinality({i \in 1..(Len(requests) - 1) : requests[i + 1] = requests[i]})
       <= errorCount

\* A step of the loop that changes from.
AdvanceStep == cpc # "start" /\ from' # from

\* A failed request or a malformed response is counted.
ErrorStep == cpc = "request" /\ errorCount' # errorCount

\* C37 as stated: from advances by exactly one page size and only after the
\* page at from was fetched, parsed and every record of it handed to
\* persistence; after a failed request or a malformed response the next
\* request uses the same offset.
C37_AdvanceAsStated ==
  /\ []RequestsFollowPages
  /\ [][/\ AdvanceStep =>
              (/\ cpc = "process"
               /\ from' = from + PageSize
               /\ processedAt' = Append(processedAt, from)
               /\ skippedRecords' = skippedRecords)
         /\ (ErrorStep => from' = from)]_vars

\* C37: from advances by exactly one page size and only after the page at
\* from was fetched, parsed and handed to the batch save; when ctx cut that
\* save short the invocation returns without requesting the new offset; after
\* a failed request or a malformed response the next request uses the same
\* offset.
C37_AdvanceByOnePage ==
  /\ []RequestsFollowPages
  /\ [][/\ AdvanceStep =>
              (/\ cpc = "process"
               /\ from' = from + PageSize
               /\ processedAt' = Append(processedAt, from)
               /\ (skippedRecords' # skippedRecords => cpc' = "returned"))
         /\ (ErrorStep => from' = from)]_vars

\* A request was repeated after an error, a later page was requested after
\* the page before it was saved, and from has just advanced again.
C37_Witness ==
  /\ cpc = "limwait"
  /\ skippedRecords = 0
  /\ from = requests[Len(requests)] + PageSize
  /\ \E i \in 1..(Len(requests) - 1) : requests[i + 1] = requests[i]
  /\ \E i \in 1..(Len(requests) - 1) : requests[i + 1] = requests[i] + PageSize

\* ------------------------------------------- SpecTick: overlapping runs
\* The incremental runs of task t that have not returned.
LiveRuns(t) ==
  {r \in 1..Len(runs) : runs[r].task = t /\ runs[r].pc \in {"loop", "request"}}

\* C38: a monitor tick never launches an incremental run of a task while an
\* earlier incremental run of that task is still running.
C38_OneRunPerTask ==
  [][Len(runs') > Len(runs) => LiveRuns(runs'[Len(runs')].task) = {}]_vars

\* ---------------------------------------------- SpecMgr: direct requests
\* C39: with proxying enabled, no attempt of a page request is issued over a
\* client that has no proxy.
C39_NoDirectRequest == mrPc = "attempt" => clientProxy # 0

\* ------------------------------------------------ SpecRetry: no attempts
\* C40: Retry returns nil only if some invocation of the operation returned
\* nil: the last invocation made is then the one after the last error.
C40_NilOnlyAfterSuccess ==
  (rpc = "returned" /\ rResult = "nil") =>
    (invocations >= 1 /\ invocations = lastErr + 1)

====
